---- MODULE Spec2Model ----
(***************************************************************************)
(* Model of yaml_generator.py: the scenario activation pipeline            *)
(* (validate_config_scenarios, determine_active_scenarios,                 *)
(* validate_required_env_vars), the node merger (merge_nodes,              *)
(* _merge_single_node), the run of process_scenarios with the file         *)
(* collector and the output generation, the schema validator and the YAML  *)
(* renderer.                                                               *)
(***************************************************************************)
EXTENDS Integers, Sequences, FiniteSets, TLC

VARIABLES
    app_config,      \* AppConfig: scenario_env_key, default_env_vars, scenarios
    env,             \* Dict[str, str]: the environment map handed to the pipeline
    active,          \* list returned by determine_active_scenarios
    pc,              \* position of the run in the activation pipeline
    error,           \* None, or the error the last step ended with
    source_nodes,    \* merge_nodes: the base list handed to the last call
    override_nodes,  \* merge_nodes: the override list handed to the last call
    merged_nodes,    \* merge_nodes: the list returned by the last call
    history,         \* the override lists applied so far, in application order
    run,             \* process_scenarios: config readable, check_only, runs started
    templates,       \* scenario value -> the files os.walk finds under its path
    file_map,        \* collect_scenario_files: destination -> ordered sources
    cursor,          \* generate_output_files: entries of file_map processed so far
    disk,            \* the files under the working directory
    log,             \* what the run printed: errors, warnings, written paths
    schema,          \* the data handed to validate_schema / generate_yaml_from_schema
    result           \* what that call returned or raised

actVars == <<app_config, env, active, pc, error>>
mergeVars == <<source_nodes, override_nodes, merged_nodes, history>>
runVars == <<run, templates, file_map, cursor, disk, log>>
callVars == <<schema, result>>
vars == <<app_config, env, active, pc, error, source_nodes, override_nodes, merged_nodes, history,
          run, templates, file_map, cursor, disk, log, schema, result>>

\* Python's None, and the marker of a key that is not in a dict.
None == "<None>"
Absent == "<absent>"

\* The outcome of a step: no error, sys.exit(1), or a raised ConfigGeneratorError
\* whose message is the prefix followed by the joined names.
NoError == [type |-> "none", prefix |-> "", names |-> <<>>]
SystemExit1 == [type |-> "SystemExit", prefix |-> "", names |-> <<>>]
ConfigGeneratorError(prefix, names) == [type |-> "ConfigGeneratorError", prefix |-> prefix, names |-> names]

\* No run of process_scenarios is in progress, and no call has returned.
IdleRun == [readable |-> TRUE, check_only |-> FALSE, runs |-> 0]
NoResult == [returned |-> FALSE, lines |-> <<>>, errors |-> <<>>, error |-> NoError]

(***************************************************************************)
(* Bounds of the model.                                                    *)
(***************************************************************************)
MaxScenarios == 2
MaxConds == 2

(***************************************************************************)
(* Strings.  A string is a TLA+ string; where the code looks inside one    *)
(* (re.search) it is read through its characters.                          *)
(***************************************************************************)
StrChars ==
    [s \in {"", "foo", "bar", "miss", "base", "custom", "^$"} |->
        CASE s = ""       -> <<>>
          [] s = "foo"    -> <<"f", "o", "o">>
          [] s = "bar"    -> <<"b", "a", "r">>
          [] s = "miss"   -> <<"m", "i", "s", "s">>
          [] s = "base"   -> <<"b", "a", "s", "e">>
          [] s = "custom" -> <<"c", "u", "s", "t", "o", "m">>
          [] s = "^$"     -> <<"^", "$">>]

\* re.search(regex, val) for patterns made of literal characters with an
\* optional leading ^ and trailing $.
re_search(regex, val) ==
    LET p == StrChars[regex]
        v == StrChars[val]
        atStart == Len(p) > 0 /\ p[1] = "^"
        q == IF atStart THEN SubSeq(p, 2, Len(p)) ELSE p
        atEnd == Len(q) > 0 /\ q[Len(q)] = "$"
        lit == IF atEnd THEN SubSeq(q, 1, Len(q) - 1) ELSE q
    IN \E i \in 1..(Len(v) - Len(lit) + 1) :
           /\ SubSeq(v, i, i + Len(lit) - 1) = lit
           /\ atStart => i = 1
           /\ atEnd => i + Len(lit) - 1 = Len(v)

\* dict.get(key, default) and dict.get(key) on the environment map.
EnvGetOr(e, key, default) == IF key \in DOMAIN e /\ e[key] # Absent THEN e[key] ELSE default
EnvGet(e, key) == EnvGetOr(e, key, None)
InEnv(e, key) == key \in DOMAIN e /\ e[key] # Absent

(***************************************************************************)
(* Orchestrator configuration.                                             *)
(***************************************************************************)
TriggerSource == {"user", "default", "env"}
TriggerLogic == {"and", "or"}
SentinelPriority == 9999
DefaultPriority == 999

\* Sequences over S of length at most n.
SeqUpTo(S, n) == UNION {[1..k -> S] : k \in 0..n}

Range(s) == {s[i] : i \in DOMAIN s}

TriggerConditions ==
    { [key |-> "COND_A", regex |-> "foo"],
      [key |-> "COND_B", regex |-> "bar"],
      [key |-> "COND_B", regex |-> "^$"] }

Priorities == {1, DefaultPriority, 10000}

\* ScenarioConfig.from_dict: config keeps the raw dict the scenario was parsed from.
ScenarioConfig(value, source, logic, conditions, required, priority) ==
    [ value |-> value,
      trigger |-> [source |-> source, logic |-> logic, conditions |-> conditions],
      required_env_vars |-> required,
      priority |-> priority,
      config |-> [priority |-> priority] ]

\* Single scenarios with every trigger shape.
TriggerScenarios ==
    { ScenarioConfig(v, src, lg, cs, <<>>, DefaultPriority) :
        v \in {"base", "custom"}, src \in TriggerSource, lg \in TriggerLogic,
        cs \in SeqUpTo(TriggerConditions, MaxConds) }

\* Scenarios that vary in source, priority and required variables.
LayerScenarios ==
    { ScenarioConfig(IF src = "default" THEN "base" ELSE "custom", src, "and",
                     IF src = "env" THEN <<[key |-> "COND_A", regex |-> "foo"]>> ELSE <<>>,
                     req, p) :
        src \in TriggerSource, req \in {<<>>, <<"COND_B">>}, p \in Priorities }

\* The scenario lists of the configurations: one scenario of any trigger shape
\* (logic and several conditions vary for source env), or up to MaxScenarios layers.
ScenarioLists ==
    {<<s>> : s \in {t \in TriggerScenarios :
                        t.trigger.source # "env" =>
                            t.trigger.logic = "and" /\ Len(t.trigger.conditions) <= 1}}
        \cup SeqUpTo(LayerScenarios, MaxScenarios)

AppConfigs ==
    [ scenario_env_key : {"TEST_ENV"},
      default_env_vars : {<<>>, <<"", "COND_A">>},
      scenarios : ScenarioLists ]

Environments ==
    [ TEST_ENV : {Absent, "base", "custom"},
      COND_A : {Absent, "foo", "miss"},
      COND_B : {Absent, "bar", "miss"} ]

(***************************************************************************)
(* validate_config_scenarios                                               *)
(***************************************************************************)
\* Mutant: the rule for source env is not enforced.
TriggerViolation_EnvUnchecked(sc) ==
    sc.trigger.source \in {"user", "default"} /\ sc.trigger.conditions # <<>>

TriggerViolation(sc) ==
    \/ sc.trigger.source \in {"user", "default"} /\ sc.trigger.conditions # <<>>
    \/ sc.trigger.source = "env" /\ sc.trigger.conditions = <<>>

validate_config_scenarios(cfg) ==
    IF \E i \in DOMAIN cfg.scenarios : TriggerViolation(cfg.scenarios[i])
    THEN "exit1"
    ELSE "ok"

(***************************************************************************)
(* determine_active_scenarios                                              *)
(***************************************************************************)
\* Mutant: a condition on a variable that is not set never matches.
ConditionMatches_MissingNeverMatches(cond, e) ==
    InEnv(e, cond.key) /\ re_search(cond.regex, e[cond.key])

ConditionMatches(cond, e) == re_search(cond.regex, EnvGetOr(e, cond.key, ""))

\* Mutant: the selection is read from the default key, not the configured one.
UserSelection_DefaultKey(cfg, e) == EnvGet(e, "SCENARIO_TYPE")

\* user_selection = env.get(app_config.scenario_env_key)
UserSelection(cfg, e) == EnvGet(e, cfg.scenario_env_key)

is_active(sc, cfg, e) ==
    LET src == sc.trigger.source
        user_selection == UserSelection(cfg, e)
        conds == sc.trigger.conditions
    IN CASE src = "default" -> TRUE
         [] src = "user"    -> user_selection = sc.value
         [] src = "env"     ->
                IF conds = <<>> THEN FALSE
                ELSE CASE sc.trigger.logic = "and" ->
                              \A i \in DOMAIN conds : ConditionMatches(conds[i], e)
                       [] sc.trigger.logic = "or" ->
                              \E i \in DOMAIN conds : ConditionMatches(conds[i], e)

\* Mutant: the configured priority of a default scenario is kept.
OverwritePriority_Skipped(sc) == sc

\* Mutant: an active scenario of source default gets the default priority of
\* a scenario.
OverwritePriority_Default(sc) ==
    IF sc.trigger.source = "default"
    THEN [sc EXCEPT !.priority = DefaultPriority]
    ELSE sc

\* sc.priority = 9999 for an active scenario of source default.
OverwritePriority(sc) ==
    IF sc.trigger.source = "default"
    THEN [sc EXCEPT !.priority = SentinelPriority]
    ELSE sc

\* list.sort(key=priority, reverse=True): stable, descending.
RECURSIVE InsertDesc(_, _)
InsertDesc(sorted, sc) ==
    IF sorted = <<>> THEN <<sc>>
    ELSE IF Head(sorted).priority >= sc.priority
         THEN <<Head(sorted)>> \o InsertDesc(Tail(sorted), sc)
         ELSE <<sc>> \o sorted

\* Mutant: the active list is returned in config order.
SortDescending_Unsorted(s) == s

RECURSIVE SortDescending(_)
SortDescending(s) ==
    IF s = <<>> THEN <<>>
    ELSE InsertDesc(SortDescending(SubSeq(s, 1, Len(s) - 1)), s[Len(s)])

\* The scenarios list after the loop: active default scenarios were mutated in place.
ScenariosAfter(cfg, e) ==
    [i \in DOMAIN cfg.scenarios |->
        IF is_active(cfg.scenarios[i], cfg, e)
        THEN OverwritePriority(cfg.scenarios[i])
        ELSE cfg.scenarios[i]]

determine_active_scenarios(cfg, e) ==
    LET after == ScenariosAfter(cfg, e)
        idx == {i \in DOMAIN after : is_active(cfg.scenarios[i], cfg, e)}
        appended == SelectSeq(
            [i \in DOMAIN after |-> [pos |-> i, sc |-> after[i]]],
            LAMBDA x : x.pos \in idx)
    IN SortDescending([i \in DOMAIN appended |-> appended[i].sc])

(***************************************************************************)
(* validate_required_env_vars                                              *)
(***************************************************************************)
\* Mutant: the required variables of every configured scenario are demanded.
MissingKeys_AllScenarios(cfg, active_scenarios, e) ==
    {cfg.default_env_vars[i] : i \in {j \in DOMAIN cfg.default_env_vars :
        cfg.default_env_vars[j] # "" /\ ~InEnv(e, cfg.default_env_vars[j])}}
    \cup UNION {
        {cfg.scenarios[n].required_env_vars[i] :
            i \in {j \in DOMAIN cfg.scenarios[n].required_env_vars :
                /\ cfg.scenarios[n].required_env_vars[j] # ""
                /\ ~InEnv(e, cfg.scenarios[n].required_env_vars[j])}}
        : n \in DOMAIN cfg.scenarios}

MissingKeys(cfg, active_scenarios, e) ==
    {cfg.default_env_vars[i] : i \in {j \in DOMAIN cfg.default_env_vars :
        cfg.default_env_vars[j] # "" /\ ~InEnv(e, cfg.default_env_vars[j])}}
    \cup UNION {
        {active_scenarios[n].required_env_vars[i] :
            i \in {j \in DOMAIN active_scenarios[n].required_env_vars :
                /\ active_scenarios[n].required_env_vars[j] # ""
                /\ ~InEnv(e, active_scenarios[n].required_env_vars[j])}}
        : n \in DOMAIN active_scenarios}

\* The orders list(set(missing)) may produce.
Orderings(S) == {s \in [1..Cardinality(S) -> S] : Range(s) = S}

\* The outcomes of a call: no error, or the ConfigGeneratorError raised, whose
\* message joins the missing names in one of the orders the set may give.
validate_required_env_vars(cfg, active_scenarios, e) ==
    LET missing == MissingKeys(cfg, active_scenarios, e)
    IN IF missing # {}
       THEN { ConfigGeneratorError("Missing required environment variables", o) :
                o \in Orderings(missing) }
       ELSE {NoError}

(***************************************************************************)
(* SchemaNode and the node merger.                                         *)
(***************************************************************************)
MaxNodes == 2

\* A condition attribute: None, or a dict that may hold a "conditions" list.
ConditionNone == [kind |-> "None", has_conditions |-> FALSE, conditions |-> <<>>]
ConditionDict(conds) == [kind |-> "dict", has_conditions |-> TRUE, conditions |-> conds]

\* Python truthiness of the attributes _merge_single_node tests.
TruthyList(l) == l # <<>>
TruthyStr(x) == x # None /\ x # ""
TruthyCondition(c) == c.kind = "dict" /\ c.has_conditions

\* SchemaNode.from_dict of a dict that holds only key and children.
SchemaNode(key, children) ==
    [ key |-> key,
      multi_type |-> <<>>,
      item_multi_type |-> <<>>,
      description |-> "",
      default_value |-> None,
      required |-> TRUE,
      override_strategy |-> "merge",
      override_hint |-> FALSE,
      is_override |-> FALSE,
      regex_enable |-> FALSE,
      regex |-> None,
      condition |-> ConditionNone,
      children |-> children ]

\* Children composition of _merge_single_node.
RECURSIVE merge_nodes(_, _)

\* Mutant: replace is treated as merge.
MergedChildren_AlwaysMerge(base, override) ==
    IF base.children # <<>>
    THEN merge_nodes(base.children, override.children)
    ELSE override.children

\* Mutant: an override without children empties the base node's children.
MergedChildren_EmptyOverrideWipes(base, override) ==
    IF override.override_strategy = "replace"
    THEN override.children
    ELSE IF base.children # <<>> /\ override.children # <<>>
         THEN merge_nodes(base.children, override.children)
         ELSE override.children

MergedChildren(base, override) ==
    IF override.override_strategy = "replace"
    THEN override.children
    ELSE IF base.children # <<>>
         THEN merge_nodes(base.children, override.children)
         ELSE override.children

\* Mutant: a default_value the base already has is kept.
MergedDefaultValue_KeepBase(base, override) ==
    IF base.default_value # None THEN base.default_value ELSE override.default_value

\* default_value after _merge_single_node.
MergedDefaultValue(base, override) ==
    IF override.default_value # None THEN override.default_value ELSE base.default_value

\* Mutant: the merger sets the hint of a node it merges into.
MergedOverrideHint_AlwaysSet(base, override) == TRUE

\* base.override_hint = override.override_hint
MergedOverrideHint(base, override) == override.override_hint

\* Mutant: required is replaced only when the override is not required.
MergedRequired_OnlyWhenFalse(base, override) == base.required /\ override.required

\* base.required = override.required
MergedRequired(base, override) == override.required

merge_single_node(base, override) ==
    [ key |-> base.key,
      multi_type |-> IF TruthyList(override.multi_type)
                     THEN override.multi_type ELSE base.multi_type,
      item_multi_type |-> IF TruthyList(override.item_multi_type)
                          THEN override.item_multi_type ELSE base.item_multi_type,
      description |-> IF TruthyStr(override.description)
                      THEN override.description ELSE base.description,
      default_value |-> MergedDefaultValue(base, override),
      required |-> MergedRequired(base, override),
      override_strategy |-> IF TruthyStr(override.override_strategy)
                            THEN override.override_strategy ELSE base.override_strategy,
      override_hint |-> MergedOverrideHint(base, override),
      is_override |-> override.is_override,
      regex_enable |-> override.regex_enable,
      regex |-> IF TruthyStr(override.regex) THEN override.regex ELSE base.regex,
      condition |-> IF TruthyCondition(override.condition)
                    THEN override.condition ELSE base.condition,
      children |-> MergedChildren(base, override) ]

\* source_map[key]: the dict comprehension keeps the last node of each key, and
\* an appended override is the only node of its key.
SourceMapIndex(nodes, key) ==
    CHOOSE i \in DOMAIN nodes :
        /\ nodes[i].key = key
        /\ \A j \in DOMAIN nodes : nodes[j].key = key => j <= i

InSourceMap(nodes, key) == \E i \in DOMAIN nodes : nodes[i].key = key /\ key # ""

\* Mutant: an override of a new key is inserted at the front.
MergeStep_Prepend(nodes, override) ==
    IF override.key = "" THEN nodes
    ELSE IF InSourceMap(nodes, override.key)
         THEN [nodes EXCEPT ![SourceMapIndex(nodes, override.key)] =
                   merge_single_node(nodes[SourceMapIndex(nodes, override.key)], override)]
         ELSE <<override>> \o nodes

\* Mutant: an override without a key is treated like any other.
MergeStep_KeepsEmptyKey(nodes, override) ==
    IF InSourceMap(nodes, override.key)
    THEN [nodes EXCEPT ![SourceMapIndex(nodes, override.key)] =
              merge_single_node(nodes[SourceMapIndex(nodes, override.key)], override)]
    ELSE Append(nodes, override)

\* One iteration of the loop over override_nodes.
MergeStep(nodes, override) ==
    IF override.key = "" THEN nodes
    ELSE IF InSourceMap(nodes, override.key)
         THEN [nodes EXCEPT ![SourceMapIndex(nodes, override.key)] =
                   merge_single_node(nodes[SourceMapIndex(nodes, override.key)], override)]
         ELSE Append(nodes, override)

RECURSIVE MergeLoop(_, _)
MergeLoop(nodes, overrides) ==
    IF overrides = <<>> THEN nodes
    ELSE MergeLoop(MergeStep(nodes, Head(overrides)), Tail(overrides))

merge_nodes(source, overrides) == MergeLoop(source, overrides)

(***************************************************************************)
(* Schema files: the node lists a scenario directory can supply.           *)
(***************************************************************************)
\* The scenarios whose overlays are merged, in application order.
Layers == <<"base", "p5", "p1">>

NodeKeys == {"a", "A", "b"}
LayerKeys == {"shared_key", "b"}

TagType(tag) ==
    CASE tag = "base" -> "string"
      [] tag = "p5"   -> "number"
      [] OTHER        -> "bool"

\* A node that sets every attribute, with values that name the file it is from.
FullNode(tag, key, children) ==
    [ key |-> key,
      multi_type |-> <<TagType(tag)>>,
      item_multi_type |-> <<TagType(tag)>>,
      description |-> "desc_" \o tag,
      default_value |-> "from_" \o tag,
      required |-> FALSE,
      override_strategy |-> "replace",
      override_hint |-> TRUE,
      is_override |-> TRUE,
      regex_enable |-> TRUE,
      regex |-> "regex_" \o tag,
      condition |-> ConditionDict(<<tag>>),
      children |-> children ]

\* A node that sets key, default_value and override_strategy only.
ValuedNode(tag, key, strategy, children) ==
    [SchemaNode(key, children) EXCEPT !.default_value = "from_" \o tag,
                                      !.override_strategy = strategy]

RECURSIVE TreeSize(_)
TreeSize(nodes) ==
    IF nodes = <<>> THEN 0
    ELSE 1 + TreeSize(Head(nodes).children) + TreeSize(Tail(nodes))

\* Node lists of at most n nodes in all, sibling keys distinct; kind selects
\* the nodes of a merge pair ("pair") or of a layer ("layer").
RECURSIVE NodeLists(_, _, _)
NodesUpTo(kind, tag, n) ==
    IF kind = "pair"
    THEN UNION { {SchemaNode(k, c), FullNode(tag, k, c)} :
                    k \in NodeKeys, c \in NodeLists(kind, tag, n - 1) }
    ELSE UNION { {SchemaNode(k, c), ValuedNode(tag, k, "merge", c), ValuedNode(tag, k, "replace", c)} :
                    k \in LayerKeys, c \in NodeLists(kind, tag, n - 1) }

NodeLists(kind, tag, n) ==
    IF n <= 0 THEN {<<>>}
    ELSE {<<>>} \cup
         UNION { { <<nd>> \o rest :
                     rest \in { r \in NodeLists(kind, tag, n - 1 - TreeSize(nd.children)) :
                                  \A i \in DOMAIN r : r[i].key # nd.key } } :
                 nd \in NodesUpTo(kind, tag, n) }

BaseFiles == NodeLists("pair", "base", MaxNodes)
OverrideFiles == NodeLists("pair", "p1", MaxNodes)
LayerFiles(layer) == NodeLists("layer", layer, MaxNodes)

(***************************************************************************)
(* The activation pipeline as a state machine.                             *)
(***************************************************************************)
\* The config is parsed and the environment loaded; the merger is not running.
InitAct ==
    /\ app_config \in AppConfigs
    /\ env \in Environments
    /\ active = <<>>
    /\ pc = "start"
    /\ error = NoError
    /\ source_nodes = <<>>
    /\ override_nodes = <<>>
    /\ merged_nodes = <<>>
    /\ history = <<>>
    /\ run = IdleRun
    /\ templates = <<>>
    /\ file_map = <<>>
    /\ cursor = 0
    /\ disk = {}
    /\ log = <<>>
    /\ schema = <<>>
    /\ result = NoResult

\* process_scenarios: validate_config_scenarios(app_config)
ValidateConfigScenarios ==
    /\ pc = "start"
    /\ pc' = IF validate_config_scenarios(app_config) = "exit1" THEN "exit1" ELSE "validated"
    /\ error' = IF validate_config_scenarios(app_config) = "exit1" THEN SystemExit1 ELSE NoError
    /\ UNCHANGED <<app_config, env, active>>
    /\ UNCHANGED <<mergeVars, runVars, callVars>>

\* determine_active_scenarios(app_config, env): after validation in
\* process_scenarios, or called directly on a parsed config.
DetermineActiveScenarios ==
    /\ pc \in {"start", "validated"}
    /\ active' = determine_active_scenarios(app_config, env)
    /\ app_config' = [app_config EXCEPT !.scenarios = ScenariosAfter(app_config, env)]
    /\ pc' = "activated"
    /\ UNCHANGED <<env, error>>
    /\ UNCHANGED <<mergeVars, runVars, callVars>>

\* validate_required_env_vars(app_config, active_scenarios, env)
ValidateRequiredEnvVars ==
    /\ pc = "activated"
    /\ error' \in validate_required_env_vars(app_config, active, env)
    /\ pc' = IF error' = NoError THEN "env_ok" ELSE "raised"
    /\ UNCHANGED <<app_config, env, active>>
    /\ UNCHANGED <<mergeVars, runVars, callVars>>

NextAct ==
    \/ ValidateConfigScenarios
    \/ DetermineActiveScenarios
    \/ ValidateRequiredEnvVars

SpecAct == InitAct /\ [][NextAct]_vars

(***************************************************************************)
(* The merger as a state machine.                                          *)
(***************************************************************************)
\* AppConfig() with its defaults, and an environment that sets nothing.
IdleConfig == [scenario_env_key |-> "SCENARIO_TYPE", default_env_vars |-> <<>>, scenarios |-> <<>>]
IdleEnv == [TEST_ENV |-> Absent, COND_A |-> Absent, COND_B |-> Absent]

\* A base schema file is loaded; nothing is merged yet, and the activation
\* pipeline is not running.
InitPair ==
    /\ merged_nodes \in BaseFiles
    /\ source_nodes = <<>>
    /\ override_nodes = <<>>
    /\ history = <<>>
    /\ app_config = IdleConfig
    /\ env = IdleEnv
    /\ active = <<>>
    /\ pc = "idle"
    /\ error = NoError
    /\ run = IdleRun
    /\ templates = <<>>
    /\ file_map = <<>>
    /\ cursor = 0
    /\ disk = {}
    /\ log = <<>>
    /\ schema = <<>>
    /\ result = NoResult

\* merge_nodes(base_nodes, override_nodes) on a loaded base and override file.
MergeNodes ==
    /\ history = <<>>
    /\ \E ov \in OverrideFiles :
          /\ source_nodes' = merged_nodes
          /\ override_nodes' = ov
          /\ merged_nodes' = merge_nodes(merged_nodes, ov)
          /\ history' = <<ov>>
    /\ UNCHANGED <<actVars, runVars, callVars>>

NextMerge == MergeNodes

SpecMerge == InitPair /\ [][NextMerge]_vars

\* _process_schema_file starts from merged_nodes = [].
InitLayers ==
    /\ merged_nodes = <<>>
    /\ source_nodes = <<>>
    /\ override_nodes = <<>>
    /\ history = <<>>
    /\ app_config = IdleConfig
    /\ env = IdleEnv
    /\ active = <<>>
    /\ pc = "idle"
    /\ error = NoError
    /\ run = IdleRun
    /\ templates = <<>>
    /\ file_map = <<>>
    /\ cursor = 0
    /\ disk = {}
    /\ log = <<>>
    /\ schema = <<>>
    /\ result = NoResult

\* _process_schema_file: merged_nodes = merge_nodes(merged_nodes, nodes) for the
\* file of each layer in application order.
ApplyLayer ==
    /\ Len(history) < Len(Layers)
    /\ \E nodes \in LayerFiles(Layers[Len(history) + 1]) :
          /\ source_nodes' = merged_nodes
          /\ override_nodes' = nodes
          /\ merged_nodes' = merge_nodes(merged_nodes, nodes)
          /\ history' = Append(history, nodes)
    /\ UNCHANGED <<actVars, runVars, callVars>>

NextLayers == ApplyLayer

SpecLayers == InitLayers /\ [][NextLayers]_vars

(***************************************************************************)
(* File names and contents.  Where the code slices a string, tests its     *)
(* ends or substitutes inside it, the string is the sequence of its        *)
(* characters.                                                             *)
(***************************************************************************)
SufJson == <<".", "j", "s", "o", "n">>
SufYml == <<".", "y", "m", "l">>
SufIni == <<".", "i", "n", "i">>

\* s.endswith(suffix), s.startswith(prefix)
endswith(s, suffix) ==
    Len(s) >= Len(suffix) /\ SubSeq(s, Len(s) - Len(suffix) + 1, Len(s)) = suffix
startswith(s, prefix) ==
    Len(s) >= Len(prefix) /\ SubSeq(s, 1, Len(prefix)) = prefix

\* s[:-n] for n > 0
DropLast(s, n) == SubSeq(s, 1, Len(s) - n)

\* s.replace(old, new) for a non-empty old
RECURSIVE replace(_, _, _)
replace(s, old, new) ==
    IF Len(s) < Len(old) THEN s
    ELSE IF startswith(s, old)
         THEN new \o replace(SubSeq(s, Len(old) + 1, Len(s)), old, new)
         ELSE <<Head(s)>> \o replace(Tail(s), old, new)

\* The names of the environment variables and the values they take, as
\* characters, in the order env.items() yields them.
EnvKeys == <<"TEST_ENV", "COND_A", "COND_B">>
EnvKeyChars ==
    [ TEST_ENV |-> <<"T", "E", "S", "T", "_", "E", "N", "V">>,
      COND_A |-> <<"C", "O", "N", "D", "_", "A">>,
      COND_B |-> <<"C", "O", "N", "D", "_", "B">> ]
PlaceholderChars == {"T", "E", "S", "N", "V", "C", "O", "D", "A", "B", "_"}

\* re.search(r"\{[A-Z0-9_]+\}", s) (lead = "") and re.search(r"\$\{[A-Z0-9_]+\}", s)
\* (lead = "$"); PlaceholderChars are the characters of [A-Z0-9_] in use.
HasPlaceholder(s, lead) ==
    \E i \in DOMAIN s, j \in DOMAIN s :
        /\ i + 1 < j
        /\ s[i] = "{" /\ s[j] = "}"
        /\ \A k \in (i + 1)..(j - 1) : s[k] \in PlaceholderChars
        /\ i > Len(lead)
        /\ SubSeq(s, i - Len(lead), i - 1) = lead

\* The loop over env.items() of resolve_path_vars (lead = "") and of
\* resolve_content_vars (lead = "$").
RECURSIVE Substitute(_, _, _, _)
Substitute(s, e, lead, n) ==
    IF n > Len(EnvKeys) THEN s
    ELSE LET key == EnvKeys[n]
             placeholder == lead \o <<"{">> \o EnvKeyChars[key] \o <<"}">>
         IN  Substitute(IF InEnv(e, key) THEN replace(s, placeholder, StrChars[e[key]]) ELSE s,
                        e, lead, n + 1)

resolve_path_vars(path_template, e) == Substitute(path_template, e, <<>>, 1)
resolve_content_vars(content, e) == Substitute(content, e, <<"$">>, 1)

(***************************************************************************)
(* resolve_path_vars and resolve_content_vars over an environment given as *)
(* env.items(): the pairs of name and value in the order the dict yields   *)
(* them, both as characters; a value may hold a placeholder itself.        *)
(***************************************************************************)
Item(key, value) == [key |-> key, value |-> value]

\* for key, value in env.items(): content = content.replace(placeholder, value)
RECURSIVE SubstituteItems(_, _, _)
SubstituteItems(s, items, lead) ==
    IF items = <<>> THEN s
    ELSE SubstituteItems(replace(s, lead \o <<"{">> \o Head(items).key \o <<"}">>, Head(items).value),
                         Tail(items), lead)

\* resolve_path_vars (lead = "") and resolve_content_vars (lead = "$"); both
\* return what the loop made, with or without the printed warning.
resolve_vars(s, items, lead) == SubstituteItems(s, items, lead)

\* The texts substituted: ${A}, ${B}${A}, x${C}, {A}/{B} and a text without
\* placeholder; the names A and B may be in the environment, C never is.
SubstTexts ==
    { <<"$", "{", "A", "}">>, <<"$", "{", "B", "}", "$", "{", "A", "}">>,
      <<"x", "$", "{", "C", "}">>, <<"{", "A", "}", "/", "{", "B", "}">>, <<"x">> }

\* The values of A and B: plain text, empty, or text that holds a placeholder.
SubstValues ==
    { <<"1">>, <<>>, <<"$", "{", "B", "}">>, <<"$", "{", "A", "}">>, <<"{", "B", "}">>,
      <<"$", "{", "C", "}">> }

\* env.items(): no variable, A or B alone, or both in either order.
SubstItems ==
    {<<>>} \cup UNION { { <<Item(<<"A">>, v)>>, <<Item(<<"B">>, v)>> } : v \in SubstValues }
           \cup UNION { { <<Item(<<"A">>, v), Item(<<"B">>, w)>>, <<Item(<<"B">>, w), Item(<<"A">>, v)>> } :
                        v \in SubstValues, w \in SubstValues }

InitSubst ==
    /\ schema \in [text : SubstTexts, items : SubstItems]
    /\ result = NoResult
    /\ app_config = IdleConfig
    /\ env = IdleEnv
    /\ active = <<>>
    /\ pc = "idle"
    /\ error = NoError
    /\ source_nodes = <<>>
    /\ override_nodes = <<>>
    /\ merged_nodes = <<>>
    /\ history = <<>>
    /\ run = IdleRun
    /\ templates = <<>>
    /\ file_map = <<>>
    /\ cursor = 0
    /\ disk = {}
    /\ log = <<>>

\* content = resolve_content_vars(content, env)
ResolveContentVars ==
    /\ pc = "idle"
    /\ pc' = "content"
    /\ result' = [NoResult EXCEPT !.returned = TRUE,
                                  !.lines = resolve_vars(schema.text, schema.items, <<"$">>)]
    /\ UNCHANGED <<schema, app_config, env, active, error, mergeVars, runVars>>

\* final_rel_path = resolve_path_vars(final_rel_path_tpl, env)
ResolvePathVars ==
    /\ pc = "idle"
    /\ pc' = "path"
    /\ result' = [NoResult EXCEPT !.returned = TRUE,
                                  !.lines = resolve_vars(schema.text, schema.items, <<>>)]
    /\ UNCHANGED <<schema, app_config, env, active, error, mergeVars, runVars>>

NextSubst == ResolveContentVars \/ ResolvePathVars

SpecSubst == InitSubst /\ [][NextSubst]_vars

(***************************************************************************)
(* substitute_env_in_default_values over trees whose default_value is      *)
(* None, a string, a number, a list or a dict.  A value is a record of its *)
(* kind, its text (a string or the digits of a number), the keys of a dict *)
(* and the elements of a list or the values of a dict.                     *)
(***************************************************************************)
NoneValue == [kind |-> "none", text |-> <<>>, keys |-> <<>>, elems |-> <<>>]
StrValue(text) == [kind |-> "str", text |-> text, keys |-> <<>>, elems |-> <<>>]
IntValue(text) == [kind |-> "int", text |-> text, keys |-> <<>>, elems |-> <<>>]
ListValue(elems) == [kind |-> "list", text |-> <<>>, keys |-> <<>>, elems |-> elems]
DictValue(keys, elems) == [kind |-> "dict", text |-> <<>>, keys |-> keys, elems |-> elems]

RECURSIVE resolve_dict_strings(_, _)
RECURSIVE resolve_list_strings(_, _)

\* Mutant: a list inside a dict or a list is kept as it is.
ResolveElement_ListsKept(v, items) ==
    IF v.kind = "str" THEN StrValue(resolve_vars(v.text, items, <<"$">>))
    ELSE IF v.kind = "dict" THEN resolve_dict_strings(v, items)
    ELSE v

\* The branches both helpers take for a value v of a dict or an element v of a
\* list: a string is resolved, a dict and a list are walked, anything else is
\* kept.
ResolveElement(v, items) ==
    IF v.kind = "str" THEN StrValue(resolve_vars(v.text, items, <<"$">>))
    ELSE IF v.kind = "dict" THEN resolve_dict_strings(v, items)
    ELSE IF v.kind = "list" THEN resolve_list_strings(v, items)
    ELSE v

\* new_d[k] = ... for k, v in d.items(): the keys are kept as they are
resolve_dict_strings(d, items) ==
    DictValue(d.keys, [i \in DOMAIN d.elems |-> ResolveElement(d.elems[i], items)])

\* new_l.append(...) for v in l
resolve_list_strings(l, items) ==
    ListValue([i \in DOMAIN l.elems |-> ResolveElement(l.elems[i], items)])

\* The attributes of a SchemaNode that the substitution can meet.
DefaultNode(key, regex, required, default_value, children) ==
    [key |-> key, description |-> key, multi_type |-> <<"string">>, item_multi_type |-> <<>>,
     regex |-> regex, required |-> required, default_value |-> default_value,
     children |-> children]

\* The body of the loop for one node, children being the node's children
\* after the recursive call.
SubstituteNode(node, items, children) ==
    LET default_val == node.default_value
        resolved ==
            IF default_val.kind # "none" /\ default_val # StrValue(<<>>)
            THEN [node EXCEPT !.default_value =
                      IF default_val.kind = "str" THEN StrValue(resolve_vars(default_val.text, items, <<"$">>))
                      ELSE IF default_val.kind = "dict" THEN resolve_dict_strings(default_val, items)
                      ELSE IF default_val.kind = "list" THEN resolve_list_strings(default_val, items)
                      ELSE default_val]
            ELSE node
    IN  [resolved EXCEPT !.children = children]

RECURSIVE substitute_env_in_default_values(_, _)
substitute_env_in_default_values(nodes, items) ==
    [i \in DOMAIN nodes |->
        SubstituteNode(nodes[i], items,
                       substitute_env_in_default_values(nodes[i].children, items))]

\* The default values of the trees: None, "", strings with a placeholder of a
\* name that is or is not in the environment, a number, and lists and dicts
\* that hold strings, numbers and one another; one dict has a placeholder as
\* its key.
PlaceholderA == <<"$", "{", "A", "}">>
PlaceholderB == <<"$", "{", "B", "}">>

DefaultValues ==
    { NoneValue, StrValue(<<>>), StrValue(PlaceholderA), StrValue(<<"x">> \o PlaceholderB),
      IntValue(<<"7">>),
      ListValue(<<StrValue(PlaceholderA), IntValue(<<"7">>), StrValue(<<>>)>>),
      DictValue(<<PlaceholderA>>, <<StrValue(PlaceholderA)>>),
      DictValue(<<<<"k">>, <<"j">>>>,
                <<ListValue(<<StrValue(PlaceholderB), DictValue(<<<<"i">>>>, <<StrValue(PlaceholderA)>>)>>),
                  IntValue(<<"7">>)>>) }

\* The environments of the trees: A and B with a plain value, and A with a
\* value that holds the placeholder of B, in both orders.
DefaultItems ==
    { <<>>, <<Item(<<"A">>, <<"1">>)>>, <<Item(<<"B">>, <<>>)>>,
      <<Item(<<"A">>, <<"1">>), Item(<<"B">>, <<"2">>)>>,
      <<Item(<<"A">>, PlaceholderB), Item(<<"B">>, <<"2">>)>>,
      <<Item(<<"B">>, <<"2">>), Item(<<"A">>, PlaceholderB)>> }

InitDefaults ==
    /\ \E dv \in DefaultValues, cv \in DefaultValues, rx \in {<<>>, PlaceholderA}, rq \in BOOLEAN,
          nested \in BOOLEAN, its \in DefaultItems :
          /\ merged_nodes =
                 IF nested
                 THEN <<DefaultNode(<<"p">>, rx, rq, dv,
                                    <<DefaultNode(PlaceholderA, PlaceholderA, TRUE, cv, <<>>)>>)>>
                 ELSE <<DefaultNode(<<"p">>, rx, rq, dv, <<>>),
                        DefaultNode(PlaceholderA, PlaceholderA, TRUE, cv, <<>>)>>
          /\ schema = [nodes |-> merged_nodes, items |-> its]
    /\ result = NoResult
    /\ app_config = IdleConfig
    /\ env = IdleEnv
    /\ active = <<>>
    /\ pc = "idle"
    /\ error = NoError
    /\ source_nodes = <<>>
    /\ override_nodes = <<>>
    /\ history = <<>>
    /\ run = IdleRun
    /\ templates = <<>>
    /\ file_map = <<>>
    /\ cursor = 0
    /\ disk = {}
    /\ log = <<>>

\* substitute_env_in_default_values(merged_nodes, env): the nodes are changed
\* in place.
SubstituteDefaults ==
    /\ pc = "idle"
    /\ pc' = "substituted"
    /\ merged_nodes' = substitute_env_in_default_values(merged_nodes, schema.items)
    /\ UNCHANGED <<schema, result, app_config, env, active, error, source_nodes, override_nodes,
                   history, runVars>>

NextDefaults == SubstituteDefaults

SpecDefaults == InitDefaults /\ [][NextDefaults]_vars

(***************************************************************************)
(* The schema validator: SchemaNode.from_dict, validate_node,              *)
(* validate_schema.                                                        *)
(***************************************************************************)
\* A JSON object of a schema file: the keys it holds and their values.  The
\* values of multi_type and item_multi_type are lists here.
JsonNode(keys, key, multi_type, item_multi_type, children) ==
    [ keys |-> keys, key |-> key, multi_type |-> multi_type,
      item_multi_type |-> item_multi_type, children |-> children ]

\* d.get(k, default)
DictGet(d, k, default) == IF k \in d.keys THEN d[k] ELSE default

\* SchemaNode.from_dict: the attributes of the dataclass are read with their
\* defaults; any other key of the dict is not read.
RECURSIVE from_dict(_)
from_dict(d) ==
    [ SchemaNode(DictGet(d, "key", ""),
                 [i \in DOMAIN DictGet(d, "children", <<>>) |->
                     from_dict(DictGet(d, "children", <<>>)[i])])
      EXCEPT !.multi_type = DictGet(d, "multi_type", <<>>),
             !.item_multi_type = DictGet(d, "item_multi_type", <<>>),
             !.description = DictGet(d, "description", ""),
             !.default_value = DictGet(d, "default_value", None),
             !.required = DictGet(d, "required", TRUE),
             !.override_strategy = DictGet(d, "override_strategy", "merge"),
             !.override_hint = DictGet(d, "override_hint", FALSE),
             !.is_override = DictGet(d, "is_override", FALSE),
             !.regex_enable = DictGet(d, "regex_enable", FALSE),
             !.regex = DictGet(d, "regex", None),
             !.condition = DictGet(d, "condition", ConditionNone) ]

\* One message of the error list: its text, the key it prints and the dotted
\* node_key path (the keys from the top-level node down) it was found at.
SchemaError(msg, key, node_key) == [msg |-> msg, key |-> key, node_key |-> node_key]

AllowedIniRoots == {"aggregations", "groups", "global_vars", "group_vars"}

\* key or fallback
StrOr(x, fallback) == IF x = "" THEN fallback ELSE x

\* The checks validate_node makes on the node itself, in the order of the code.
\* node_key is the sequence of the parts of the dotted path (keys hold no dot).
NodeErrors(node, is_ini, node_key) ==
    LET key == node.key
        multi_type == Range(node.multi_type)
        item_multi_type == Range(node.item_multi_type)
        parts == Len(node_key)
        Err(cond, msg) == IF cond THEN <<SchemaError(msg, key, node_key)>> ELSE <<>>
    IN  Err(key = "", "missing 'key' attribute")
     \o Err(multi_type = {}, "missing 'multi_type' attribute")
     \o Err("object" \in multi_type /\ "list" \in multi_type,
            "'multi_type' cannot contain both 'object' and 'list'")
     \o Err("list" \in multi_type /\ item_multi_type = {},
            "'multi_type' contains 'list' but 'item_multi_type' is empty")
     \o Err("object" \in multi_type /\ item_multi_type # {},
            "'multi_type' contains 'object' but 'item_multi_type' is not empty")
     \o Err(is_ini /\ parts = 1 /\ key \notin AllowedIniRoots, "invalid INI root key")
     \o Err(is_ini /\ parts = 1 /\ key \in AllowedIniRoots /\ "object" \notin multi_type,
            "INI root node must have 'multi_type' containing 'object'")
     \o Err(is_ini /\ parts = 2 /\ node_key[1] \in {"groups", "aggregations"}
                   /\ "list" \notin multi_type,
            "node under INI groups/aggregations must have 'multi_type' containing 'list'")
     \o Err(is_ini /\ parts = 2 /\ node_key[1] \in {"groups", "aggregations"}
                   /\ "object" \notin item_multi_type,
            "node under INI groups/aggregations must have 'item_multi_type' containing 'object'")
     \o Err(is_ini /\ parts = 2 /\ node_key[1] = "group_vars" /\ "object" \notin multi_type,
            "node under INI 'group_vars' must have 'multi_type' containing 'object'")
     \o Err(is_ini /\ parts = 2 /\ node_key[1] = "groups" /\ node.children # <<>>
                   /\ \A i \in DOMAIN node.children : node.children[i].key # "hostname",
            "node under INI 'groups' must contain a 'hostname' child key")
     \o Err(is_ini /\ parts = 3 /\ node_key[1] = "aggregations" /\ "object" \notin multi_type,
            "child node under INI 'aggregations' list must have 'multi_type' containing 'object'")

\* validate_node: the node's own errors, then those of its children in order.
RECURSIVE validate_node(_, _, _)
RECURSIVE ValidateChildren(_, _, _)
ValidateChildren(children, is_ini, node_key) ==
    IF children = <<>> THEN <<>>
    ELSE validate_node(Head(children), is_ini, Append(node_key, Head(children).key))
         \o ValidateChildren(Tail(children), is_ini, node_key)

validate_node(node, is_ini, node_key) ==
    NodeErrors(node, is_ini, node_key) \o ValidateChildren(node.children, is_ini, node_key)

\* validate_schema on parsed nodes (the branch isinstance(d, SchemaNode)).
RECURSIVE ValidateNodes(_, _)
ValidateNodes(nodes, is_ini) ==
    IF nodes = <<>> THEN <<>>
    ELSE validate_node(Head(nodes), is_ini, <<StrOr(Head(nodes).key, "UNKNOWN")>>)
         \o ValidateNodes(Tail(nodes), is_ini)

\* validate_schema(data, file_path) on a list of JSON objects.
validate_schema(data, file_path) ==
    ValidateNodes([i \in DOMAIN data |-> from_dict(data[i])], endswith(file_path, SufIni \o SufJson))

(***************************************************************************)
(* Scenario directories, the file collector and the output generation.     *)
(***************************************************************************)
MaxFiles == 2
MaxRuns == 2

\* A file os.walk yields: the directory it is in relative to the scenario
\* path ("" or "d/"), its basename, and what it holds (the nodes
\* load_json_nodes returns, or the text of a raw file).
TemplateFile(dir, name, nodes, text) == [dir |-> dir, name |-> name, nodes |-> nodes, text |-> text]

RelPath(f) == f.dir \o f.name

\* A root node an INI schema may hold.
IniRootNode == [SchemaNode("global_vars", <<>>) EXCEPT !.multi_type = <<"object">>]

\* The files a scenario directory may hold: a.yml.json (valid, or with a node
\* that lacks multi_type), d/a.ini.json, the raw files a.yml (the text
\* <scenario>=${COND_B}) and {COND_B}.yml, and the hidden .a.yml.
TemplateFiles(scenario) ==
    { TemplateFile(<<>>, <<"a">> \o SufYml \o SufJson, <<FullNode(scenario, "shared_key", <<>>)>>, <<>>),
      TemplateFile(<<>>, <<"a">> \o SufYml \o SufJson, <<SchemaNode("b", <<>>)>>, <<>>),
      TemplateFile(<<"d", "/">>, <<"a">> \o SufIni \o SufJson, <<IniRootNode>>, <<>>),
      TemplateFile(<<>>, <<"a">> \o SufYml, <<>>,
                   StrChars[scenario] \o <<"=", "$", "{">> \o EnvKeyChars.COND_B \o <<"}">>),
      TemplateFile(<<>>, <<"{">> \o EnvKeyChars.COND_B \o <<"}">> \o SufYml, <<>>, <<"y">>),
      TemplateFile(<<>>, <<".", "a">> \o SufYml, <<>>, <<"z">>) }

\* What os.walk yields for a scenario path: at most MaxFiles files of distinct
\* paths, those of the top directory before those of a subdirectory.
Listings(scenario) ==
    { l \in SeqUpTo(TemplateFiles(scenario), MaxFiles) :
        /\ \A i, j \in DOMAIN l : i # j => RelPath(l[i]) # RelPath(l[j])
        /\ \A i, j \in DOMAIN l : i < j => ~(l[i].dir # <<>> /\ l[j].dir = <<>>) }

\* A scenario path: missing, or a directory with its listing.
ScenarioDirs(scenario) ==
    {[exists |-> FALSE, files |-> <<>>]} \cup {[exists |-> TRUE, files |-> l] : l \in Listings(scenario)}

\* A source record of file_map: {"path", "type", "scenario"}; path is the
\* scenario path joined with the relative path, the file rides along.
Source(scenario, f, ftype) == [scenario |-> scenario, rel |-> RelPath(f), type |-> ftype, file |-> f]

\* The destination and type collect_scenario_files gives a file.
Destination(f) ==
    IF endswith(f.name, SufIni \o SufJson)
    THEN [out_rel |-> DropLast(RelPath(f), 9), ftype |-> "json"]
    ELSE IF endswith(f.name, SufYml \o SufJson)
         THEN [out_rel |-> DropLast(RelPath(f), 5), ftype |-> "json"]
         ELSE [out_rel |-> RelPath(f), ftype |-> "raw"]

\* file_map[out_rel].append(source), the dict keeping its insertion order.
AddSource(fm, out_rel, src) ==
    IF \E i \in DOMAIN fm : fm[i].dest = out_rel
    THEN [i \in DOMAIN fm |->
            IF fm[i].dest = out_rel
            THEN [fm[i] EXCEPT !.sources = Append(fm[i].sources, src)]
            ELSE fm[i]]
    ELSE Append(fm, [dest |-> out_rel, sources |-> <<src>>])

\* The loop over the filenames of one scenario.
RECURSIVE CollectFiles(_, _, _)
CollectFiles(fm, scenario, files) ==
    IF files = <<>> THEN fm
    ELSE LET f == Head(files)
             d == Destination(f)
         IN  CollectFiles(IF startswith(f.name, <<".">>)
                          THEN fm
                          ELSE AddSource(fm, d.out_rel, Source(scenario, f, d.ftype)),
                          scenario, Tail(files))

\* The loop over the active scenarios.
RECURSIVE CollectScenarios(_, _, _)
CollectScenarios(fm, scenarios, tpl) ==
    IF scenarios = <<>> THEN fm
    ELSE LET sc == Head(scenarios)
         IN  CollectScenarios(IF tpl[sc.value].exists
                              THEN CollectFiles(fm, sc.value, tpl[sc.value].files)
                              ELSE fm,
                              Tail(scenarios), tpl)

collect_scenario_files(active_scenarios, tpl) == CollectScenarios(<<>>, active_scenarios, tpl)

\* validate_scenario_templates: the errors of every file ending in .json
\* under the existing paths of the scenarios handed in.
RECURSIVE TemplateErrors(_, _)
RECURSIVE FileErrors(_)
FileErrors(files) ==
    IF files = <<>> THEN <<>>
    ELSE (IF endswith(Head(files).name, SufJson)
          THEN ValidateNodes(Head(files).nodes, endswith(RelPath(Head(files)), SufIni \o SufJson))
          ELSE <<>>)
         \o FileErrors(Tail(files))

TemplateErrors(scenarios, tpl) ==
    IF scenarios = <<>> THEN <<>>
    ELSE (IF tpl[Head(scenarios).value].exists
          THEN FileErrors(tpl[Head(scenarios).value].files)
          ELSE <<>>)
         \o TemplateErrors(Tail(scenarios), tpl)

\* validate_scenario_templates ends in sys.exit(1) when the list is not empty.
validate_scenario_templates(scenarios, tpl) ==
    IF TemplateErrors(scenarios, tpl) # <<>> THEN "exit1" ELSE "ok"

\* The working directory: a set of files, at most one per path.
DiskFile(path, kind, nodes, text) == [path |-> path, kind |-> kind, nodes |-> nodes, text |-> text]
exists(d, path) == \E f \in d : f.path = path

\* A line the run prints, with the destination it is about.
Printed(level, what, path) == [level |-> level, what |-> what, path |-> path]

\* save_file(path, content)
save_file(d, f) ==
    IF exists(d, f.path)
    THEN [disk |-> d, log |-> <<Printed("WARNING", "already exists", f.path)>>]
    ELSE [disk |-> d \cup {f}, log |-> <<Printed("WRITE", "written", f.path)>>]

\* The warning of resolve_path_vars (lead = "") / resolve_content_vars (lead = "$").
UnresolvedWarning(s, lead, path) ==
    IF HasPlaceholder(s, lead) THEN <<Printed("WARNING", "unresolved placeholder", path)>> ELSE <<>>

\* Mutant: the raw copy opens the output for writing without probing for it.
process_raw_file_copy_Overwrite(d, last_source, final_rel_path, e) ==
    [disk |-> {g \in d : g.path # final_rel_path}
                \cup {DiskFile(final_rel_path, "raw", <<>>, resolve_content_vars(last_source.file.text, e))},
     log |-> <<Printed("WRITE", "written", final_rel_path)>>]

\* _process_raw_file_copy(last_source, final_rel_path, final_output_path, env)
process_raw_file_copy(d, last_source, final_rel_path, e) ==
    IF exists(d, final_rel_path)
    THEN [disk |-> d, log |-> <<Printed("WARNING", "already exists", final_rel_path)>>]
    ELSE LET content == resolve_content_vars(last_source.file.text, e)
             saved == save_file(d, DiskFile(final_rel_path, "raw", <<>>, content))
         IN  [disk |-> saved.disk,
              log |-> UnresolvedWarning(content, <<"$">>, final_rel_path) \o saved.log]

\* The merge loop of _process_schema_file over the sources of a destination.
RECURSIVE MergeSources(_, _)
MergeSources(nodes, sources) ==
    IF sources = <<>> THEN nodes
    ELSE MergeSources(merge_nodes(nodes, Head(sources).file.nodes), Tail(sources))

\* _process_schema_file(sources, final_rel_path, final_output_path, env, raw_config);
\* the file written holds the rendering of the merged nodes (the string
\* defaults of the nodes here hold no ${VAR}).
process_schema_file(d, sources, final_rel_path, e) ==
    LET is_ini == \E i \in DOMAIN sources : endswith(sources[i].rel, SufIni \o SufJson)
    IN  IF exists(d, final_rel_path)
        THEN [disk |-> d, log |-> <<Printed("WARNING", "already exists", final_rel_path)>>]
        ELSE save_file(d, DiskFile(final_rel_path, IF is_ini THEN "ini" ELSE "yaml",
                                   MergeSources(<<>>, sources), <<>>))

\* last_raw_index, counted from 1; 0 when no source is raw.
LastRawIndex(sources) ==
    IF \E i \in DOMAIN sources : sources[i].type = "raw"
    THEN CHOOSE i \in DOMAIN sources :
            /\ sources[i].type = "raw"
            /\ \A j \in DOMAIN sources : sources[j].type = "raw" => j <= i
    ELSE 0

\* Mutant: the conflict is printed and the destination generated all the same.
IsConflict_Ignored(sources) == FALSE

\* The conflict test of generate_output_files.
IsConflict(sources) ==
    LastRawIndex(sources) # 0 /\ LastRawIndex(sources) < Len(sources)

\* Mutant: the raw copy reads the first source of the destination.
GenerateEntry_FirstSource(d, entry, e) ==
    LET final_rel_path == resolve_path_vars(entry.dest, e)
        warned == UnresolvedWarning(final_rel_path, <<>>, final_rel_path)
        made == IF LastRawIndex(entry.sources) = Len(entry.sources)
                THEN process_raw_file_copy(d, entry.sources[1], final_rel_path, e)
                ELSE process_schema_file(d, entry.sources, final_rel_path, e)
    IN  IF IsConflict(entry.sources)
        THEN [disk |-> d, log |-> warned \o <<Printed("ERROR", "conflict", final_rel_path)>>]
        ELSE [disk |-> made.disk, log |-> warned \o made.log]

\* One iteration of the loop of generate_output_files.
GenerateEntry(d, entry, e) ==
    LET final_rel_path == resolve_path_vars(entry.dest, e)
        warned == UnresolvedWarning(final_rel_path, <<>>, final_rel_path)
        made == IF LastRawIndex(entry.sources) = Len(entry.sources)
                THEN process_raw_file_copy(d, entry.sources[Len(entry.sources)], final_rel_path, e)
                ELSE process_schema_file(d, entry.sources, final_rel_path, e)
    IN  IF IsConflict(entry.sources)
        THEN [disk |-> d, log |-> warned \o <<Printed("ERROR", "conflict", final_rel_path)>>]
        ELSE [disk |-> made.disk, log |-> warned \o made.log]

(***************************************************************************)
(* process_scenarios as a state machine.                                   *)
(***************************************************************************)
\* The orchestrator configs of the runs: base (default) and custom (user,
\* priority 1), custom with or without a required variable, and a config
\* whose user scenario carries conditions.
RunScenarios(required, conditions) ==
    << ScenarioConfig("base", "default", "and", <<>>, <<>>, DefaultPriority),
       ScenarioConfig("custom", "user", "and", conditions, required, 1) >>

RunConfig(required, conditions) ==
    [scenario_env_key |-> "TEST_ENV", default_env_vars |-> <<>>,
     scenarios |-> RunScenarios(required, conditions)]

RunEnv(selection, cond_b) == [TEST_ENV |-> selection, COND_A |-> Absent, COND_B |-> cond_b]

\* The command lines, config files and environments of the runs.
RunInputs ==
    { [readable |-> FALSE, check_only |-> FALSE, config |-> IdleConfig, env |-> RunEnv(Absent, Absent)],
      [readable |-> TRUE, check_only |-> FALSE,
       config |-> RunConfig(<<>>, <<[key |-> "COND_A", regex |-> "foo"]>>), env |-> RunEnv("custom", Absent)] }
    \cup { [readable |-> TRUE, check_only |-> TRUE, config |-> RunConfig(<<>>, <<>>), env |-> RunEnv(sel, Absent)] :
             sel \in {Absent} }
    \cup { [readable |-> TRUE, check_only |-> FALSE, config |-> RunConfig(<<>>, <<>>), env |-> RunEnv(sel, cb)] :
             sel \in {Absent, "custom"}, cb \in {Absent, "bar"} }
    \cup { [readable |-> TRUE, check_only |-> FALSE, config |-> RunConfig(<<"COND_B">>, <<>>),
            env |-> RunEnv("custom", Absent)] }

\* The output a.yml as an earlier run or the operator left it.
OldFile == DiskFile(<<"a">> \o SufYml, "old", <<>>, <<"o", "l", "d">>)

\* The process starts: nothing is loaded yet.
InitRun ==
    /\ \E inp \in RunInputs :
          /\ run = [readable |-> inp.readable, check_only |-> inp.check_only, runs |-> 1]
          /\ app_config = inp.config
          /\ env = inp.env
    /\ templates \in [base : ScenarioDirs("base"), custom : ScenarioDirs("custom")]
    /\ disk \in {{}, {OldFile}}
    /\ active = <<>>
    /\ pc = "boot"
    /\ error = NoError
    /\ file_map = <<>>
    /\ cursor = 0
    /\ log = <<>>
    /\ source_nodes = <<>>
    /\ override_nodes = <<>>
    /\ merged_nodes = <<>>
    /\ history = <<>>
    /\ schema = <<>>
    /\ result = NoResult

\* raw_config = load_json(config_path); a failure is printed and the
\* function returns.
LoadConfig ==
    /\ pc = "boot"
    /\ pc' = IF run.readable THEN "loaded" ELSE "returned"
    /\ UNCHANGED <<app_config, env, active, error, mergeVars, runVars, callVars>>

\* validate_config_scenarios(app_config) in process_scenarios
RunValidateConfig ==
    /\ pc = "loaded"
    /\ pc' = IF validate_config_scenarios(app_config) = "exit1" THEN "exit1" ELSE "config_ok"
    /\ error' = IF validate_config_scenarios(app_config) = "exit1" THEN SystemExit1 ELSE NoError
    /\ UNCHANGED <<app_config, env, active, mergeVars, runVars, callVars>>

\* Mutant: --check validates the templates of the active scenarios only.
CheckTemplates_ActiveOnly ==
    /\ pc = "config_ok"
    /\ run.check_only
    /\ pc' = IF validate_scenario_templates(determine_active_scenarios(app_config, env), templates) = "exit1"
             THEN "exit1" ELSE "returned"
    /\ error' = IF validate_scenario_templates(determine_active_scenarios(app_config, env), templates) = "exit1"
                THEN SystemExit1 ELSE NoError
    /\ UNCHANGED <<app_config, env, active, mergeVars, runVars, callVars>>

\* if check_only: validate_scenario_templates(app_config.scenarios); return
CheckTemplates ==
    /\ pc = "config_ok"
    /\ run.check_only
    /\ pc' = IF validate_scenario_templates(app_config.scenarios, templates) = "exit1"
             THEN "exit1" ELSE "returned"
    /\ error' = IF validate_scenario_templates(app_config.scenarios, templates) = "exit1"
                THEN SystemExit1 ELSE NoError
    /\ UNCHANGED <<app_config, env, active, mergeVars, runVars, callVars>>

\* determine_active_scenarios and validate_required_env_vars in process_scenarios
RunActivate ==
    /\ pc = "config_ok"
    /\ ~run.check_only
    /\ active' = determine_active_scenarios(app_config, env)
    /\ app_config' = [app_config EXCEPT !.scenarios = ScenariosAfter(app_config, env)]
    /\ error' \in validate_required_env_vars(app_config', active', env)
    /\ pc' = IF error' = NoError THEN "env_checked" ELSE "raised"
    /\ UNCHANGED <<env, mergeVars, runVars, callVars>>

\* Mutant: the errors of the templates are printed and the run goes on.
RunValidateTemplates_GoesOn ==
    /\ pc = "env_checked"
    /\ pc' = "templates_ok"
    /\ UNCHANGED <<app_config, env, active, error, mergeVars, runVars, callVars>>

\* validate_scenario_templates(active_scenarios)
RunValidateTemplates ==
    /\ pc = "env_checked"
    /\ pc' = IF validate_scenario_templates(active, templates) = "exit1" THEN "exit1" ELSE "templates_ok"
    /\ error' = IF validate_scenario_templates(active, templates) = "exit1" THEN SystemExit1 ELSE NoError
    /\ UNCHANGED <<app_config, env, active, mergeVars, runVars, callVars>>

\* file_map = collect_scenario_files(active_scenarios)
CollectScenarioFiles ==
    /\ pc = "templates_ok"
    /\ file_map' = collect_scenario_files(active, templates)
    /\ cursor' = 0
    /\ pc' = "generating"
    /\ UNCHANGED <<app_config, env, active, error, run, templates, disk, log, mergeVars, callVars>>

\* generate_output_files: the next destination of file_map.
GenerateOutputFile ==
    /\ pc = "generating"
    /\ cursor < Len(file_map)
    /\ LET made == GenerateEntry(disk, file_map[cursor + 1], env)
       IN  /\ disk' = made.disk
           /\ log' = Append(log, made.log)
    /\ cursor' = cursor + 1
    /\ UNCHANGED <<actVars, run, templates, file_map, mergeVars, callVars>>

\* generate_output_files and process_scenarios return.
FinishRun ==
    /\ pc = "generating"
    /\ cursor = Len(file_map)
    /\ pc' = "returned"
    /\ UNCHANGED <<app_config, env, active, error, mergeVars, runVars, callVars>>

\* The operator starts the generator again on the same inputs; the working
\* directory is as the earlier runs left it.
StartAgain ==
    /\ pc \in {"returned", "exit1", "raised"}
    /\ run.runs < MaxRuns
    /\ run' = [run EXCEPT !.runs = run.runs + 1]
    /\ pc' = "boot"
    /\ error' = NoError
    /\ active' = <<>>
    /\ file_map' = <<>>
    /\ cursor' = 0
    /\ log' = <<>>
    /\ UNCHANGED <<app_config, env, templates, disk, mergeVars, callVars>>

NextRun ==
    \/ LoadConfig
    \/ RunValidateConfig
    \/ CheckTemplates
    \/ RunActivate
    \/ RunValidateTemplates
    \/ CollectScenarioFiles
    \/ GenerateOutputFile
    \/ FinishRun
    \/ StartAgain

SpecRun == InitRun /\ [][NextRun]_vars

\* The exit status of the process: 0 when process_scenarios returns, 1 after
\* sys.exit(1) or an exception nothing catches.
ExitStatus ==
    CASE pc = "returned" -> 0
      [] pc \in {"exit1", "raised"} -> 1
      [] OTHER -> -1

(***************************************************************************)
(* validate_schema as a state machine: a schema file is loaded, then       *)
(* validated.                                                              *)
(***************************************************************************)
MultiTypes == {<<>>, <<"string">>, <<"list">>, <<"object">>, <<"object", "list">>}
ItemMultiTypes == {<<>>, <<"string">>, <<"object">>}
LegacyKeys == {{}, {"type"}, {"item_type"}}

\* The JSON object of a node: a key, multi_type or item_multi_type that is
\* empty is left out of the object, legacy holds the legacy keys it carries.
JsonObject(key, multi_type, item_multi_type, legacy, children) ==
    JsonNode({"children"} \cup legacy
                \cup (IF key = "" THEN {} ELSE {"key"})
                \cup (IF multi_type = <<>> THEN {} ELSE {"multi_type"})
                \cup (IF item_multi_type = <<>> THEN {} ELSE {"item_multi_type"}),
             key, multi_type, item_multi_type, children)

\* The schemas validated: a top-level node, alone, with a child, or with a
\* child and a grandchild.
GrandChildObjects ==
    { JsonObject(k, mt, <<>>, {}, <<>>) : k \in {"hostname", "port"}, mt \in {<<"string">>, <<"object">>} }
ChildObjects ==
    { JsonObject("web", mt, it, lg, c) :
        mt \in MultiTypes, it \in ItemMultiTypes, lg \in LegacyKeys,
        c \in {<<>>} \cup {<<g>> : g \in GrandChildObjects} }
TopObjects ==
    { JsonObject(k, mt, it, lg, c) :
        k \in {"", "groups", "web"}, mt \in MultiTypes, it \in ItemMultiTypes, lg \in LegacyKeys,
        c \in {<<>>} \cup {<<ch>> : ch \in ChildObjects} }

\* a.yml.json, d/a.ini.json
SchemaPaths == { <<"a">> \o SufYml \o SufJson, <<"d", "/", "a">> \o SufIni \o SufJson }

InitValidate ==
    /\ schema \in [data : {<<t>> : t \in TopObjects}, file_path : SchemaPaths]
    /\ result = NoResult
    /\ app_config = IdleConfig
    /\ env = IdleEnv
    /\ active = <<>>
    /\ pc = "idle"
    /\ error = NoError
    /\ source_nodes = <<>>
    /\ override_nodes = <<>>
    /\ merged_nodes = <<>>
    /\ history = <<>>
    /\ run = IdleRun
    /\ templates = <<>>
    /\ file_map = <<>>
    /\ cursor = 0
    /\ disk = {}
    /\ log = <<>>

\* errors = validate_schema(data, path)
ValidateSchema ==
    /\ ~result.returned
    /\ result' = [NoResult EXCEPT !.returned = TRUE,
                                  !.errors = validate_schema(schema.data, schema.file_path)]
    /\ UNCHANGED <<schema, actVars, mergeVars, runVars>>

NextValidate == ValidateSchema

SpecValidate == InitValidate /\ [][NextValidate]_vars

(***************************************************************************)
(* _merge_single_node as a state machine: a base node is at hand, then an  *)
(* override read from a JSON object is merged into it.                     *)
(***************************************************************************)
\* The empty dict as a condition: a dict, and falsy.
ConditionEmpty == [kind |-> "dict", has_conditions |-> FALSE, conditions |-> <<>>]

\* An attribute of a JSON object: not stated, or stated with one of the values.
Choice(values, default) ==
    {[stated |-> FALSE, value |-> default]} \cup {[stated |-> TRUE, value |-> v] : v \in values}

\* The JSON object of an override node of key "a" from its attributes; a
\* default_value of null, "", 0, false, [] or {} is named by its label.
OverrideObject(mt, it, ds, dv, rq, oh, io, re, rx, cd) ==
    [ keys |-> {"key"}
                 \cup (IF mt.stated THEN {"multi_type"} ELSE {})
                 \cup (IF it.stated THEN {"item_multi_type"} ELSE {})
                 \cup (IF ds.stated THEN {"description"} ELSE {})
                 \cup (IF dv.stated THEN {"default_value"} ELSE {})
                 \cup (IF rq.stated THEN {"required"} ELSE {})
                 \cup (IF oh.stated THEN {"override_hint"} ELSE {})
                 \cup (IF io.stated THEN {"is_override"} ELSE {})
                 \cup (IF re.stated THEN {"regex_enable"} ELSE {})
                 \cup (IF rx.stated THEN {"regex"} ELSE {})
                 \cup (IF cd.stated THEN {"condition"} ELSE {}),
      key |-> "a", multi_type |-> mt.value, item_multi_type |-> it.value,
      description |-> ds.value, default_value |-> dv.value, required |-> rq.value,
      override_hint |-> oh.value, is_override |-> io.value, regex_enable |-> re.value,
      regex |-> rx.value, condition |-> cd.value ]

\* The base nodes: one that sets every attribute (required false), one that
\* sets none but required false, and one with the defaults of the dataclass.
BaseNodes ==
    { FullNode("base", "a", <<>>),
      [SchemaNode("a", <<>>) EXCEPT !.required = FALSE],
      SchemaNode("a", <<>>) }

InitNode ==
    /\ merged_nodes \in {<<b>> : b \in BaseNodes}
    /\ source_nodes = <<>>
    /\ override_nodes = <<>>
    /\ history = <<>>
    /\ app_config = IdleConfig
    /\ env = IdleEnv
    /\ active = <<>>
    /\ pc = "idle"
    /\ error = NoError
    /\ run = IdleRun
    /\ templates = <<>>
    /\ file_map = <<>>
    /\ cursor = 0
    /\ disk = {}
    /\ log = <<>>
    /\ schema = <<>>
    /\ result = NoResult

\* merge_nodes(base_nodes, [override]): the override is a dict, which
\* merge_nodes turns into a SchemaNode before _merge_single_node.
MergeSingleNode ==
    /\ history = <<>>
    /\ \E mt \in Choice({<<>>, <<"bool">>}, <<>>), it \in Choice({<<"bool">>}, <<>>),
          ds \in Choice({"", "desc_p1"}, ""),
          dv \in Choice({None, "", "0", "False", "[]", "{}", "from_p1"}, None),
          rq \in Choice(BOOLEAN, TRUE), oh \in Choice({TRUE}, FALSE),
          io \in Choice({TRUE}, FALSE), re \in Choice({TRUE}, FALSE),
          rx \in Choice({"", "regex_p1"}, None),
          cd \in Choice({ConditionEmpty, ConditionDict(<<"p1">>)}, ConditionNone) :
          LET d == OverrideObject(mt, it, ds, dv, rq, oh, io, re, rx, cd)
          IN  /\ schema' = d
              /\ source_nodes' = merged_nodes
              /\ override_nodes' = <<from_dict(d)>>
              /\ merged_nodes' = merge_nodes(merged_nodes, <<from_dict(d)>>)
              /\ history' = <<override_nodes'>>
    /\ UNCHANGED <<actVars, runVars, result>>

NextNode == MergeSingleNode

SpecNode == InitNode /\ [][NextNode]_vars

(***************************************************************************)
(* merge_nodes over override lists that hold nodes without a key.          *)
(***************************************************************************)
MaxMerges == 2

KeyedNode(key, strategy, children) ==
    [SchemaNode(key, children) EXCEPT !.override_strategy = strategy]

\* The lists of at most two nodes built from the given nodes, keys distinct.
ListsOf(nodes) ==
    {<<>>} \cup {<<n>> : n \in nodes}
           \cup UNION { {<<n, m>> : m \in {x \in nodes : x.key # n.key}} : n \in nodes }

\* A base tree: every sibling list has distinct keys, none of them empty.
KeyedBases ==
    ListsOf({ KeyedNode(k, "merge", c) :
                k \in {"a", "b"},
                c \in {<<>>, <<KeyedNode("a", "merge", <<>>)>>,
                       <<KeyedNode("a", "merge", <<>>), KeyedNode("c", "merge", <<>>)>>} })

\* The children of an override node: distinct keys, one of which may be empty.
KeyedChildLists ==
    { <<>>, <<KeyedNode("", "merge", <<>>)>>, <<KeyedNode("a", "merge", <<>>)>>,
      <<KeyedNode("c", "merge", <<>>)>>,
      <<KeyedNode("", "merge", <<>>), KeyedNode("c", "merge", <<>>)>> }

\* An override list: distinct keys, one of which may be empty.
KeyedOverrides ==
    ListsOf({ KeyedNode("a", st, c) : st \in {"merge", "replace"}, c \in KeyedChildLists }
            \cup { KeyedNode("", "merge", c) : c \in KeyedChildLists })

InitKeys ==
    /\ merged_nodes \in KeyedBases
    /\ source_nodes = <<>>
    /\ override_nodes = <<>>
    /\ history = <<>>
    /\ app_config = IdleConfig
    /\ env = IdleEnv
    /\ active = <<>>
    /\ pc = "idle"
    /\ error = NoError
    /\ run = IdleRun
    /\ templates = <<>>
    /\ file_map = <<>>
    /\ cursor = 0
    /\ disk = {}
    /\ log = <<>>
    /\ schema = <<>>
    /\ result = NoResult

\* merged_nodes = merge_nodes(merged_nodes, nodes), one override list after another.
MergeKeyed ==
    /\ Len(history) < MaxMerges
    /\ \E nodes \in KeyedOverrides :
          /\ source_nodes' = merged_nodes
          /\ override_nodes' = nodes
          /\ merged_nodes' = merge_nodes(merged_nodes, nodes)
          /\ history' = Append(history, nodes)
    /\ UNCHANGED <<actVars, runVars, callVars>>

NextKeys == MergeKeyed

SpecKeys == InitKeys /\ [][NextKeys]_vars

(***************************************************************************)
(* The YAML renderer: is_node_enabled, _generate_yaml_comments,            *)
(* format_yaml_value, the node formatters, _apply_yaml_list_prefix,        *)
(* _apply_yaml_commenting, _process_yaml_node, generate_yaml_from_schema.  *)
(*                                                                         *)
(* A physical line of the output is its count of leading spaces and the    *)
(* pieces of text after them; with it ride the path of the node that       *)
(* produced it and the part of the node's block it belongs to.  An element *)
(* of the list the renderer returns is a sequence of physical lines (the   *)
(* text between its "\n").                                                 *)
(***************************************************************************)
Line(indent, text, of, part) == [indent |-> indent, text |-> text, of |-> of, part |-> part]
BlankLine == Line(0, <<>>, <<>>, "blank")

\* The default_value and regex values of the rendered schemas, by what
\* Python holds: None, the strings "", "v" and "r", the list ["x", "y"], and
\* the empty list and dict the formatters put in place of None.
PyValues ==
    [ v \in {None, "", "v", "r", "[x, y]", "[]", "{}"} |->
        CASE v = None     -> [type |-> "NoneType", items |-> <<>>]
          [] v = ""       -> [type |-> "str", items |-> <<>>]
          [] v = "v"      -> [type |-> "str", items |-> <<>>]
          [] v = "r"      -> [type |-> "str", items |-> <<>>]
          [] v = "[x, y]" -> [type |-> "list", items |-> <<"x", "y">>]
          [] v = "[]"     -> [type |-> "list", items |-> <<>>]
          [] v = "{}"     -> [type |-> "dict", items |-> <<>>] ]

\* is_node_enabled(node_data)
is_node_enabled(node) ==
    ~(~node.required /\ node.default_value = None /\ node.regex = None)

\* resolve_node_value(node)
resolve_node_value(node) ==
    IF node.default_value = None THEN node.regex ELSE node.default_value

DefaultHintStyle == "<=== [Override]"

\* get_override_hint_style(config): config is None, or a dict with its keys.
get_override_hint_style(config) ==
    IF config.is_set /\ "override_hint_style" \in config.keys
    THEN (IF config.hint_has_comment_char THEN config.override_hint_style
          ELSE "# " \o config.override_hint_style)
    ELSE "# " \o DefaultHintStyle

\* get_override_hint(node, hint_marker): the pieces appended to the key line.
get_override_hint(node, hint_marker) ==
    IF node.override_hint THEN <<" " \o hint_marker>> ELSE <<>>

TopLevelSpacingDefault == 2

\* config.get("top_level_spacing", 2) if config else 2
top_level_spacing(config) ==
    IF config.is_set /\ "top_level_spacing" \in config.keys
    THEN config.top_level_spacing ELSE TopLevelSpacingDefault

\* generate_banner and _generate_yaml_comments: a description that starts
\* with "#" becomes a banner of three lines, any other one line per line of
\* the description (the descriptions here have one line).
generate_yaml_comments(desc, indent, of) ==
    IF desc = "" THEN <<>>
    ELSE IF desc = "#banner"
         THEN << <<Line(2 * indent, <<"# ", "====">>, of, "desc")>>,
                 <<Line(2 * indent, <<"# ", "banner">>, of, "desc")>>,
                 <<Line(2 * indent, <<"# ", "====">>, of, "desc")>> >>
         ELSE << <<Line(2 * indent, <<"# ", desc>>, of, "desc")>> >>

\* _format_yaml_scalar_string for the strings in use: the empty string is
\* quoted, "v" is written as it is.
format_yaml_scalar_string(value) == IF value = "" THEN "\"\"" ELSE value

\* format_yaml_value(value, indent_level): the text that stays on the line
\* (inline) and the lines that follow a leading "\n" (block).
format_yaml_value(value, indent_level, of) ==
    LET pv == PyValues[value]
    IN  CASE pv.type = "NoneType" -> [inline |-> "", block |-> <<>>]
          [] pv.type = "dict" -> [inline |-> "{}", block |-> <<>>]
          [] pv.type = "list" /\ pv.items = <<>> -> [inline |-> "[]", block |-> <<>>]
          [] pv.type = "list" /\ pv.items # <<>> ->
                [inline |-> "",
                 block |-> [i \in DOMAIN pv.items |->
                              Line(2 * (indent_level + 1), <<"- ", pv.items[i]>>, of, "value")]]
          [] OTHER -> [inline |-> format_yaml_scalar_string(value), block |-> <<>>]

\* The line f"{line_content} {val}{hint}", or, for a value that starts with
\* "\n", the element f"{line_content}{hint}{val}" of several physical lines.
KeyElement(key, indent, val, hint, of) ==
    IF val.block # <<>>
    THEN <<Line(2 * indent, <<key \o ":">> \o hint, of, "key")>> \o val.block
    ELSE IF val.inline = ""
         THEN <<Line(2 * indent, <<key \o ":">> \o hint, of, "key")>>
         ELSE <<Line(2 * indent, <<key \o ":", " " \o val.inline>> \o hint, of, "key")>>

\* _apply_yaml_list_prefix(child_lines)
RECURSIVE ListPrefixLoop(_, _)
ListPrefixLoop(child_lines, started) ==
    IF child_lines = <<>> THEN <<>>
    ELSE LET cl == Head(child_lines)
             first == Head(cl)
             blank == \A i \in DOMAIN cl : cl[i].text = <<>>
             comment == first.text # <<>> /\ first.text[1] = "# "
         IN  IF blank THEN ListPrefixLoop(Tail(child_lines), started)
             ELSE IF ~started /\ ~comment
                  THEN << <<[first EXCEPT !.text = <<"- ">> \o first.text]>> \o Tail(cl) >>
                       \o ListPrefixLoop(Tail(child_lines), TRUE)
                  ELSE IF comment /\ ~started
                       THEN <<cl>> \o ListPrefixLoop(Tail(child_lines), started)
                       ELSE << <<[first EXCEPT !.indent = first.indent + 2]>> \o Tail(cl) >>
                            \o ListPrefixLoop(Tail(child_lines), started)

apply_yaml_list_prefix(child_lines) == ListPrefixLoop(child_lines, FALSE)

\* line.split("\n") over the elements
RECURSIVE Flatten(_)
Flatten(elements) ==
    IF elements = <<>> THEN <<>> ELSE Head(elements) \o Flatten(Tail(elements))

\* Mutant: the lines of a node that is not required are returned as they are.
apply_yaml_commenting_Never(node_lines, is_required, has_conditions, desc_line_count) == node_lines

\* _apply_yaml_commenting(node_lines, is_required, has_conditions, desc_line_count)
apply_yaml_commenting(node_lines, is_required, has_conditions, desc_line_count) ==
    IF is_required \/ has_conditions THEN node_lines
    ELSE LET flat == Flatten(node_lines)
         IN  [i \in DOMAIN flat |->
                IF i <= desc_line_count \/ flat[i].text = <<>>
                THEN <<flat[i]>>
                ELSE <<[flat[i] EXCEPT !.text = <<"# ">> \o flat[i].text]>>]

RenderError(key) ==
    ConfigGeneratorError("Conflict: node cannot be both 'object' and 'list'.", <<key>>)

RECURSIVE generate_yaml_from_schema(_, _, _, _)

\* The children of a node, rendered one level deeper.
RenderChildren(node, indent, config, of) ==
    generate_yaml_from_schema(node.children, indent + 1, config, of)

\* _format_yaml_list_node
format_yaml_list_node(node, value, indent, config, hint, of) ==
    IF node.children # <<>>
    THEN IF PyValues[value].type = "list" /\ PyValues[value].items # <<>>
         THEN [lines |-> <<KeyElement(node.key, indent, format_yaml_value(value, indent, of), hint, of)>>,
               error |-> NoError]
         ELSE LET sub == RenderChildren(node, indent, config, of)
              IN  [lines |-> <<KeyElement(node.key, indent, format_yaml_value(None, indent, of), hint, of)>>
                               \o apply_yaml_list_prefix(sub.lines),
                   error |-> sub.error]
    ELSE [lines |-> <<KeyElement(node.key, indent,
                                 format_yaml_value(IF value = None THEN "[]" ELSE value, indent, of),
                                 hint, of)>>,
          error |-> NoError]

\* _format_yaml_object_node
format_yaml_object_node(node, value, indent, config, hint, of) ==
    IF node.children # <<>> /\ (node.default_value = None \/ node.default_value = "")
    THEN LET sub == RenderChildren(node, indent, config, of)
         IN  [lines |-> <<KeyElement(node.key, indent, format_yaml_value(None, indent, of), hint, of)>>
                          \o sub.lines,
              error |-> sub.error]
    ELSE [lines |-> <<KeyElement(node.key, indent,
                                 format_yaml_value(IF value = None THEN "{}" ELSE value, indent, of),
                                 hint, of)>>,
          error |-> NoError]

\* _format_yaml_scalar_node, for a node whose multi_type names neither bool
\* nor number: None is printed as the empty string.
format_yaml_scalar_node(node, value, indent, hint, of) ==
    [lines |-> <<KeyElement(node.key, indent,
                            format_yaml_value(IF value = None THEN "" ELSE value, indent, of),
                            hint, of)>>,
     error |-> NoError]

\* Mutant: the conflict of 'object' and 'list' is not looked for when rendering.
HasTypeConflict_Unchecked(node) == FALSE

HasTypeConflict(node) ==
    "object" \in Range(node.multi_type) /\ "list" \in Range(node.multi_type)

\* _process_yaml_node(node, indent, prefix, hint_marker, config)
process_yaml_node(node, indent, config, of) ==
    IF HasTypeConflict(node)
    THEN [lines |-> <<>>, error |-> RenderError(node.key)]
    ELSE LET comment_lines == generate_yaml_comments(node.description, indent, of)
             hint == get_override_hint(node, get_override_hint_style(config))
             resolved == resolve_node_value(node)
             value == IF ("object" \in Range(node.multi_type) \/ "list" \in Range(node.multi_type))
                         /\ resolved = ""
                      THEN None ELSE resolved
             body == IF "list" \in Range(node.multi_type)
                     THEN format_yaml_list_node(node, value, indent, config, hint, of)
                     ELSE IF "object" \in Range(node.multi_type)
                          THEN format_yaml_object_node(node, value, indent, config, hint, of)
                          ELSE format_yaml_scalar_node(node, value, indent, hint, of)
         IN  [lines |-> apply_yaml_commenting(comment_lines \o body.lines, node.required,
                                              TruthyCondition(node.condition)
                                                  /\ node.condition.conditions # <<>>,
                                              Len(comment_lines)),
              error |-> body.error]

\* Mutant: a node that is not enabled is rendered like any other.
SkipNode_Never(node) == FALSE

\* if not is_node_enabled(node): continue
SkipNode(node) == ~is_node_enabled(node)

\* The loop of generate_yaml_from_schema from node i on; an error raised by a
\* node ends the call.
RECURSIVE RenderLoop(_, _, _, _, _, _)
RenderLoop(nodes, i, indent, config, of, is_first) ==
    IF i > Len(nodes) THEN [lines |-> <<>>, error |-> NoError]
    ELSE IF SkipNode(nodes[i]) THEN RenderLoop(nodes, i + 1, indent, config, of, is_first)
    ELSE LET spacing == IF indent = 0 /\ ~is_first
                        THEN [k \in 1..top_level_spacing(config) |-> <<BlankLine>>]
                        ELSE <<>>
             made == process_yaml_node(nodes[i], indent, config, Append(of, i))
             rest == RenderLoop(nodes, i + 1, indent, config, of, IF indent = 0 THEN FALSE ELSE is_first)
         IN  IF made.error # NoError THEN [lines |-> <<>>, error |-> made.error]
             ELSE IF rest.error # NoError THEN [lines |-> <<>>, error |-> rest.error]
             ELSE [lines |-> spacing \o made.lines \o rest.lines, error |-> NoError]

generate_yaml_from_schema(nodes, indent, config, of) ==
    RenderLoop(nodes, 1, indent, config, of, TRUE)

(***************************************************************************)
(* generate_yaml_from_schema as a state machine: a merged schema is at     *)
(* hand, then rendered.                                                    *)
(***************************************************************************)
RenderNode(key, multi_type, required, default_value, regex, description, condition, children) ==
    [ SchemaNode(key, children) EXCEPT !.multi_type = multi_type, !.required = required,
                                       !.default_value = default_value, !.regex = regex,
                                       !.description = description, !.condition = condition ]

\* Scalar nodes: required or not, with a default, a regex or neither, with or
\* without a description; and a node that is both object and list.
LeafNodes(key) ==
    { RenderNode(key, <<"string">>, rq, v[1], v[2], d, ConditionNone, <<>>) :
        rq \in BOOLEAN, v \in {<<None, None>>, <<"v", None>>, <<None, "r">>}, d \in {"", "d"} }
    \cup { RenderNode(key, <<"object", "list">>, TRUE, None, None, "", ConditionNone, <<>>) }

\* Object nodes with one child: required, not required and without a value,
\* or not required and with a regex.
InnerNodes(key) ==
    { RenderNode(key, <<"object">>, rq[1], None, rq[2], "", ConditionNone, <<g>>) :
        rq \in {<<TRUE, None>>, <<FALSE, None>>, <<FALSE, "r">>},
        g \in { RenderNode("g", <<"string">>, FALSE, None, None, "", ConditionNone, <<>>),
                RenderNode("g", <<"string">>, FALSE, "v", None, "", ConditionNone, <<>>),
                RenderNode("g", <<"string">>, TRUE, "v", None, "d", ConditionNone, <<>>) } }

RenderConditions == {ConditionNone, ConditionDict(<<>>), ConditionDict(<<"c">>)}

\* The nodes whose every attribute the renderer reads varies.
TopNodes ==
    { RenderNode("a", mt, rq, v, None, d, cd, ch) :
        mt \in {<<"string">>, <<"object">>, <<"list">>, <<"object", "list">>},
        rq \in BOOLEAN, v \in {None, "", "v", "[x, y]"}, d \in {"", "d", "#banner"},
        cd \in RenderConditions,
        ch \in {<<>>} \cup {<<c>> : c \in LeafNodes("c") \cup InnerNodes("c")} }

SiblingNodes ==
    { RenderNode("b", <<"string">>, rq, v[1], v[2], "", ConditionNone, <<>>) :
        rq \in BOOLEAN, v \in {<<None, None>>, <<"v", None>>} }

\* The node list rendered: the node alone, or with a sibling after or before it.
SchemaShapes == {"alone", "first", "second"}
RenderSchema(shape, t, s) ==
    CASE shape = "alone" -> <<t>>
      [] shape = "first" -> <<t, s>>
      [] OTHER -> <<s, t>>

\* The raw config handed to the renderer: None, or a dict that sets
\* top_level_spacing.
NoConfig ==
    [is_set |-> FALSE, keys |-> {}, top_level_spacing |-> 0,
     override_hint_style |-> "", hint_has_comment_char |-> FALSE]
RenderConfigs == {NoConfig, [NoConfig EXCEPT !.is_set = TRUE, !.keys = {"top_level_spacing"},
                                             !.top_level_spacing = 1]}

InitRender ==
    /\ \E t \in TopNodes, s \in SiblingNodes, shape \in SchemaShapes, config \in RenderConfigs :
          schema = [nodes |-> RenderSchema(shape, t, s), config |-> config]
    /\ result = NoResult
    /\ app_config = IdleConfig
    /\ env = IdleEnv
    /\ active = <<>>
    /\ pc = "idle"
    /\ error = NoError
    /\ source_nodes = <<>>
    /\ override_nodes = <<>>
    /\ merged_nodes = <<>>
    /\ history = <<>>
    /\ run = IdleRun
    /\ templates = <<>>
    /\ file_map = <<>>
    /\ cursor = 0
    /\ disk = {}
    /\ log = <<>>

\* yaml_lines = generate_yaml_from_schema(merged_nodes, config=raw_config): the
\* call returns its lines, or ends in the error a node raised.
GenerateYaml ==
    /\ ~result.returned /\ result.error = NoError
    /\ LET made == generate_yaml_from_schema(schema.nodes, 0, schema.config, <<>>)
       IN  result' = [returned |-> made.error = NoError, lines |-> made.lines,
                      errors |-> <<>>, error |-> made.error]
    /\ UNCHANGED <<schema, actVars, mergeVars, runVars>>

NextRender == GenerateYaml

SpecRender == InitRender /\ [][NextRender]_vars

(***************************************************************************)
(* The INI renderer: _render_ini_hosts, _get_ini_ordered_keys,             *)
(* _generate_ini_comments_from_desc, the four passes and                   *)
(* generate_ini_from_schema.  The lines are those of the YAML renderer, at *)
(* indent 0; a line of a root node rides with the position of the root in  *)
(* the schema, a line of a section with that position and the position of  *)
(* the section's key among the ordered keys.                               *)
(***************************************************************************)
\* The default_value and regex values of the INI schemas, by what Python
\* holds: None, strings, lists of strings, and dicts whose values are strings,
\* lists or dicts.
IniValues ==
    [ v \in {None, "", "v", "r", "[]", "{}", "[h1]", "[m, w]", "[w]", "{x: v}", "{a: v}", "{m: [h1]}",
             "{k: [m, w], z: [w]}", "{z: [w], k: [m, w]}", "{g: {a: v}}"} |->
        CASE v = None      -> [type |-> "NoneType", keys |-> <<>>, items |-> <<>>]
          [] v = ""        -> [type |-> "str", keys |-> <<>>, items |-> <<>>]
          [] v = "v"       -> [type |-> "str", keys |-> <<>>, items |-> <<>>]
          [] v = "r"       -> [type |-> "str", keys |-> <<>>, items |-> <<>>]
          [] v = "[]"      -> [type |-> "list", keys |-> <<>>, items |-> <<>>]
          [] v = "{}"      -> [type |-> "dict", keys |-> <<>>, items |-> <<>>]
          [] v = "[h1]"    -> [type |-> "list", keys |-> <<>>, items |-> <<"h1">>]
          [] v = "[m, w]"  -> [type |-> "list", keys |-> <<>>, items |-> <<"m", "w">>]
          [] v = "[w]"     -> [type |-> "list", keys |-> <<>>, items |-> <<"w">>]
          [] v = "{x: v}"  -> [type |-> "dict", keys |-> <<"x">>, items |-> <<"v">>]
          [] v = "{a: v}"  -> [type |-> "dict", keys |-> <<"a">>, items |-> <<"v">>]
          [] v = "{m: [h1]}" -> [type |-> "dict", keys |-> <<"m">>, items |-> <<"[h1]">>]
          [] v = "{k: [m, w], z: [w]}" ->
                [type |-> "dict", keys |-> <<"k", "z">>, items |-> <<"[m, w]", "[w]">>]
          [] v = "{z: [w], k: [m, w]}" ->
                [type |-> "dict", keys |-> <<"z", "k">>, items |-> <<"[w]", "[m, w]">>]
          [] v = "{g: {a: v}}" -> [type |-> "dict", keys |-> <<"g">>, items |-> <<"{a: v}">>] ]

\* val or {} for a val that is None or a dict
DictOrEmpty(val) ==
    IF IniValues[val].type = "dict" THEN IniValues[val]
    ELSE [type |-> "dict", keys |-> <<>>, items |-> <<>>]

\* d.get(k, default)
DictGetOr(d, k, default) ==
    IF k \in Range(d.keys) THEN d.items[CHOOSE j \in DOMAIN d.keys : d.keys[j] = k] ELSE default

\* d[k] = v: a key of d keeps its place, a new key goes last
DictSet(d, k, v) ==
    IF k \in Range(d.keys)
    THEN [d EXCEPT !.items[CHOOSE j \in DOMAIN d.keys : d.keys[j] = k] = v]
    ELSE [d EXCEPT !.keys = Append(d.keys, k), !.items = Append(d.items, v)]

\* d.update(e)
RECURSIVE DictUpdate(_, _)
DictUpdate(d, e) ==
    IF e.keys = <<>> THEN d
    ELSE DictUpdate(DictSet(d, Head(e.keys), Head(e.items)),
                    [e EXCEPT !.keys = Tail(e.keys), !.items = Tail(e.items)])

\* format_smart_quoted_string for the strings in use: the empty string is
\* quoted, a plain word is written as it is.
format_smart_quoted_string(v_str) == IF v_str = "" THEN "\"\"" ELSE v_str

\* _render_ini_hosts(hosts, item_schemas) for hosts that are strings and
\* groups that declare no child schemas: one line per host, the host written
\* by format_yaml_value as a scalar string.
render_ini_hosts(hosts, of) ==
    [j \in DOMAIN hosts |-> <<Line(0, <<format_yaml_scalar_string(hosts[j])>>, of, "value")>>]

\* _get_ini_ordered_keys(node, val): the keys of the children in schema order,
\* then the keys of val that no child has.
get_ini_ordered_keys(node, val) ==
    LET child_keys == [j \in DOMAIN node.children |-> node.children[j].key]
    IN  child_keys \o SelectSeq(val.keys, LAMBDA k : k \notin Range(child_keys))

\* schema_map.get(k): whether a child has the key, and the child
HasSchema(node, k) == \E j \in DOMAIN node.children : node.children[j].key = k
SchemaOf(node, k) == node.children[CHOOSE j \in DOMAIN node.children : node.children[j].key = k]

\* _generate_ini_comments_from_desc(schema), the banner as in the YAML renderer
generate_ini_comments_from_desc(desc, of) == generate_yaml_comments(desc, 0, of)

\* bool(c_cond and isinstance(c_cond, dict) and c_cond.get('conditions'))
HasConds(node) == TruthyCondition(node.condition) /\ node.condition.conditions # <<>>

\* if not is_req and not has_cond: continue
SkipIniRoot(node) == ~node.required /\ ~HasConds(node)

\* The test at the head of the loop of each pass, and the continue after it.
WalksRoot(node, key) == node.key = key /\ is_node_enabled(node) /\ ~SkipIniRoot(node)

\* The end of the loop over the ordered keys: the section is commented by the
\* rule of its own schema, then followed by an empty line.
CloseSection(node, k, child_lines, desc_count) ==
    LET c_req == IF HasSchema(node, k) THEN SchemaOf(node, k).required ELSE TRUE
        c_has_cond == IF HasSchema(node, k) THEN HasConds(SchemaOf(node, k)) ELSE FALSE
    IN  apply_yaml_commenting(child_lines, c_req, c_has_cond, desc_count) \o <<<<BlankLine>>>>

\* if g_schema and not is_node_enabled(g_schema): continue
SkipsSection(node, k) == HasSchema(node, k) /\ ~is_node_enabled(SchemaOf(node, k))

\* The body of _generate_ini_global_vars for one node.
GlobalVarsBlock(node, of) ==
    LET val == IniValues[resolve_node_value(node)]
    IN  generate_ini_comments_from_desc(node.description, of)
        \o <<<<Line(0, <<"[all:vars]">>, of, "key")>>>>
        \o (IF val.type = "dict"
            THEN [j \in DOMAIN val.keys |->
                    <<Line(0, <<val.keys[j], "=", format_yaml_scalar_string(val.items[j])>>,
                           of, "value")>>]
            ELSE <<>>)
        \o <<<<BlankLine>>>>

\* The body of the loop of _generate_ini_groups for the group gk.
GroupSection(node, groups_val, gk, hint_marker, of) ==
    LET hosts == IniValues[DictGetOr(groups_val, gk, "[]")].items
        desc_lines == IF HasSchema(node, gk)
                      THEN generate_ini_comments_from_desc(SchemaOf(node, gk).description, of)
                      ELSE <<>>
        hint == IF HasSchema(node, gk) THEN get_override_hint(SchemaOf(node, gk), hint_marker) ELSE <<>>
    IN  CloseSection(node, gk,
                     desc_lines \o <<<<Line(0, <<"[", gk, "]">> \o hint, of, "key")>>>>
                         \o render_ini_hosts(hosts, of),
                     Len(desc_lines))

\* Mutant: every section lists the members of the first child.
ChildrenGroups_OfFirst(node, aggr_val, ak) ==
    IF node.children = <<>> THEN <<>> ELSE IniValues[resolve_node_value(node.children[1])].items

\* The members of the aggregation ak: the resolved value of its schema, else
\* aggr_val[ak], else the keys of the schema's children, else none; a value
\* that is not a list gives one line.
ChildrenGroups(node, aggr_val, ak) ==
    LET own == IF HasSchema(node, ak) THEN resolve_node_value(SchemaOf(node, ak)) ELSE None
        Falsy(v) == v = None \/ v = "" \/ (IniValues[v].type # "str" /\ IniValues[v].items = <<>>)
        given == IF Falsy(own) THEN DictGetOr(aggr_val, ak, None) ELSE own
    IN  IF Falsy(given)
        THEN IF HasSchema(node, ak)
             THEN LET ch == SchemaOf(node, ak).children
                  IN  SelectSeq([j \in DOMAIN ch |-> ch[j].key], LAMBDA k : k # "")
             ELSE <<>>
        ELSE IF IniValues[given].type = "list" THEN IniValues[given].items
             ELSE <<given>>

\* The body of the loop of _generate_ini_aggregations for the aggregation ak.
AggregationSection(node, aggr_val, ak, of) ==
    LET desc_lines == IF HasSchema(node, ak)
                      THEN generate_ini_comments_from_desc(SchemaOf(node, ak).description, of)
                      ELSE <<>>
        children_groups == ChildrenGroups(node, aggr_val, ak)
    IN  CloseSection(node, ak,
                     desc_lines \o <<<<Line(0, <<"[", ak, ":children]">>, of, "key")>>>>
                         \o [j \in DOMAIN children_groups |->
                               <<Line(0, <<children_groups[j]>>, of, "value")>>],
                     Len(desc_lines))

\* vars_val of a group: the resolved values of the children of its schema,
\* then the schema's own value if a dict, then group_vars_val[gk] if a dict.
RECURSIVE ChildVars(_, _)
ChildVars(children, d) ==
    IF children = <<>> THEN d
    ELSE LET ch == Head(children)
         IN  ChildVars(Tail(children),
                       IF ch.key # "" /\ resolve_node_value(ch) # None
                       THEN DictSet(d, ch.key, resolve_node_value(ch)) ELSE d)

VarsVal(node, group_vars_val, gk) ==
    LET empty == [type |-> "dict", keys |-> <<>>, items |-> <<>>]
        from_children == IF HasSchema(node, gk) THEN ChildVars(SchemaOf(node, gk).children, empty)
                         ELSE empty
        g_val == IF HasSchema(node, gk) THEN resolve_node_value(SchemaOf(node, gk)) ELSE None
        with_own == IF IniValues[g_val].type = "dict" THEN DictUpdate(from_children, IniValues[g_val])
                    ELSE from_children
        parent_val == DictGetOr(group_vars_val, gk, "{}")
    IN  IF IniValues[parent_val].type = "dict"
        THEN DictUpdate(with_own, IniValues[parent_val]) ELSE with_own

\* The body of the loop of _generate_ini_group_vars for the group gk.
GroupVarsSection(node, group_vars_val, gk, hint_marker, of) ==
    LET desc_lines == IF HasSchema(node, gk)
                      THEN generate_ini_comments_from_desc(SchemaOf(node, gk).description, of)
                      ELSE <<>>
        hint == IF HasSchema(node, gk) THEN get_override_hint(SchemaOf(node, gk), hint_marker) ELSE <<>>
        vars_val == VarsVal(node, group_vars_val, gk)
    IN  CloseSection(node, gk,
                     desc_lines \o <<<<Line(0, <<"[", gk, ":vars]">> \o hint, of, "key")>>>>
                         \o [j \in DOMAIN vars_val.keys |->
                               <<Line(0, <<vars_val.keys[j], "=",
                                           format_smart_quoted_string(vars_val.items[j])>>, of, "value")>>],
                     Len(desc_lines))

\* The lines a pass adds for one root node it walks: the comments of the
\* root, then, for global_vars, the [all:vars] block, and for the others one
\* section per ordered key whose schema is enabled.
RootBlock(node, hint_marker, i) ==
    IF node.key = "global_vars" THEN GlobalVarsBlock(node, <<i>>)
    ELSE LET val == DictOrEmpty(resolve_node_value(node))
             ordered_keys == get_ini_ordered_keys(node, val)
             Section(j) ==
                 LET k == ordered_keys[j]
                 IN  IF SkipsSection(node, k) THEN <<>>
                     ELSE IF node.key = "groups" THEN GroupSection(node, val, k, hint_marker, <<i, j>>)
                     ELSE IF node.key = "aggregations" THEN AggregationSection(node, val, k, <<i, j>>)
                     ELSE GroupVarsSection(node, val, k, hint_marker, <<i, j>>)
         IN  generate_ini_comments_from_desc(node.description, <<i>>)
             \o Flatten([j \in DOMAIN ordered_keys |-> Section(j)])

\* One pass: for node in nodes, the block of each node of the key that is
\* enabled and not skipped.
IniPass(nodes, key, hint_marker) ==
    Flatten([i \in DOMAIN nodes |->
                IF WalksRoot(nodes[i], key) THEN RootBlock(nodes[i], hint_marker, i) ELSE <<>>])

generate_ini_global_vars(nodes) == IniPass(nodes, "global_vars", "")
generate_ini_groups(nodes, override_hint_marker) == IniPass(nodes, "groups", override_hint_marker)
generate_ini_aggregations(nodes) == IniPass(nodes, "aggregations", "")
generate_ini_group_vars(nodes, override_hint_marker) == IniPass(nodes, "group_vars", override_hint_marker)

generate_ini_from_schema(nodes, config) ==
    LET override_hint_marker == get_override_hint_style(config)
    IN  generate_ini_global_vars(nodes)
        \o generate_ini_groups(nodes, override_hint_marker)
        \o generate_ini_aggregations(nodes)
        \o generate_ini_group_vars(nodes, override_hint_marker)

(***************************************************************************)
(* generate_ini_from_schema as a state machine: a merged INI schema is at  *)
(* hand, then rendered.                                                    *)
(***************************************************************************)
IniConditions == {ConditionNone, ConditionDict(<<"c">>)}

\* global_vars: required or not, with or without conditions, a dict or no
\* value.
GlobalVarsRoots ==
    { RenderNode("global_vars", <<"object">>, rq, v, None, "d", cd, <<>>) :
        rq \in BOOLEAN, v \in {None, "{x: v}"}, cd \in IniConditions }

\* groups: the hosts of group m in the value of the root, group m with or
\* without a schema of its own.
GroupsRoots ==
    { RenderNode("groups", <<"object">>, rq, "{m: [h1]}", None, "", ConditionNone, ch) :
        rq \in BOOLEAN,
        ch \in { <<>>,
                 <<RenderNode("m", <<"list">>, FALSE, None, "r", "d", ConditionNone, <<>>)>>,
                 <<[RenderNode("m", <<"list">>, TRUE, None, None, "", ConditionNone, <<>>)
                       EXCEPT !.override_hint = TRUE]>> } }

\* The children of an aggregations root: k and z in either order, k with a
\* list of its own, without a value, or not enabled; z with a list of its own
\* or with children whose keys are its members.
AggregationK ==
    { RenderNode("k", <<"list">>, TRUE, "[m, w]", None, "#banner", ConditionNone, <<>>),
      RenderNode("k", <<"list">>, FALSE, "[m, w]", None, "d", ConditionNone, <<>>),
      RenderNode("k", <<"list">>, TRUE, None, None, "d", ConditionNone, <<>>),
      RenderNode("k", <<"list">>, FALSE, None, None, "d", ConditionNone, <<>>) }
AggregationZ ==
    { RenderNode("z", <<"list">>, TRUE, "[w]", None, "d", ConditionNone, <<>>),
      RenderNode("z", <<"list">>, TRUE, None, None, "",
                 ConditionNone, <<RenderNode("w", <<"string">>, TRUE, None, None, "", ConditionNone, <<>>)>>) }

AggregationsRoots ==
    { RenderNode("aggregations", <<"object">>, rq, v, None, d, ConditionNone, ch) :
        rq \in BOOLEAN, v \in {None, "{z: [w], k: [m, w]}"}, d \in {"", "d"},
        ch \in {<<>>} \cup UNION { {<<k, z>>, <<z, k>>} : k \in AggregationK, z \in AggregationZ } }

\* group_vars: the variables of group g from the value of the root, from the
\* schema of g and from the children of that schema.
GroupVarsRoots ==
    { RenderNode("group_vars", <<"object">>, rq, v, None, "", ConditionNone, ch) :
        rq \in BOOLEAN, v \in {"{g: {a: v}}"},
        ch \in { <<>>,
                 <<RenderNode("g", <<"object">>, TRUE, "{x: v}", None, "d", ConditionNone,
                              <<RenderNode("a", <<"string">>, TRUE, "r", None, "", ConditionNone, <<>>)>>)>> } }

\* The order of the roots in the schema: the order of the passes, the
\* reverse of it, or aggregations alone before global_vars.
IniOrders == {"passes", "reverse", "two"}
IniSchema(order, gv, gr, ag, gvs) ==
    CASE order = "passes" -> <<gv, gr, ag, gvs>>
      [] order = "reverse" -> <<gvs, ag, gr, gv>>
      [] OTHER -> <<ag, gv>>

InitIni ==
    /\ \E order \in IniOrders, gv \in GlobalVarsRoots, gr \in GroupsRoots, ag \in AggregationsRoots,
          gvs \in GroupVarsRoots :
          schema = [nodes |-> IniSchema(order, gv, gr, ag, gvs), config |-> NoConfig]
    /\ result = NoResult
    /\ app_config = IdleConfig
    /\ env = IdleEnv
    /\ active = <<>>
    /\ pc = "idle"
    /\ error = NoError
    /\ source_nodes = <<>>
    /\ override_nodes = <<>>
    /\ merged_nodes = <<>>
    /\ history = <<>>
    /\ run = IdleRun
    /\ templates = <<>>
    /\ file_map = <<>>
    /\ cursor = 0
    /\ disk = {}
    /\ log = <<>>

\* output_lines = generate_ini_from_schema(merged_nodes, config=raw_config)
GenerateIni ==
    /\ ~result.returned
    /\ result' = [returned |-> TRUE, lines |-> generate_ini_from_schema(schema.nodes, schema.config),
                  errors |-> <<>>, error |-> NoError]
    /\ UNCHANGED <<schema, actVars, mergeVars, runVars>>

NextIni == GenerateIni

SpecIni == InitIni /\ [][NextIni]_vars

(***************************************************************************)
(* Properties of the activation pipeline, checked under SpecAct.           *)
(***************************************************************************)
Activated == pc \in {"activated", "env_ok", "raised"}
EnvChecked == pc \in {"env_ok", "raised"}

\* The positions of the active list that hold the scenario sc of the config.
ActivePositions(sc) == {j \in DOMAIN active : active[j] = sc}

\* C1: after determine_active_scenarios, every scenario of source default is in
\* the active list, and every active entry of source default has priority 9999,
\* whatever priority its raw config gave.
C1_DefaultAlwaysActive ==
    Activated =>
        /\ \A i \in DOMAIN app_config.scenarios :
              app_config.scenarios[i].trigger.source = "default" =>
                  \E j \in DOMAIN active :
                      /\ active[j].value = app_config.scenarios[i].value
                      /\ active[j].trigger = app_config.scenarios[i].trigger
                      /\ active[j].config = app_config.scenarios[i].config
                      /\ active[j].priority = 9999
        /\ \A j \in DOMAIN active :
              active[j].trigger.source = "default" => active[j].priority = 9999
        /\ Cardinality({j \in DOMAIN active : active[j].trigger.source = "default"})
              = Cardinality({i \in DOMAIN app_config.scenarios :
                                app_config.scenarios[i].trigger.source = "default"})

\* C1 witness: a default scenario configured with another priority is active at 9999.
C1_Witness ==
    /\ Activated
    /\ \E j \in DOMAIN active :
          /\ active[j].trigger.source = "default"
          /\ active[j].config.priority = 10000
          /\ active[j].priority = 9999
    /\ env.TEST_ENV = "custom"

\* C2: a scenario of source user is in the active list iff the environment
\* holds the scenario's value under scenario_env_key (an absent key selects
\* nothing); with base(default) and custom(user), selecting base gives [base]
\* and selecting custom gives [base, custom].
IsBaseAndCustom(scs) ==
    /\ Len(scs) = 2
    /\ \E i, j \in DOMAIN scs :
          /\ i # j
          /\ scs[i].value = "base" /\ scs[i].trigger.source = "default"
          /\ scs[j].value = "custom" /\ scs[j].trigger.source = "user"
          /\ scs[j].config.priority = DefaultPriority

ActiveValues == [j \in DOMAIN active |-> active[j].value]

C2_UserSelection ==
    Activated =>
        /\ \A i \in DOMAIN app_config.scenarios :
              app_config.scenarios[i].trigger.source = "user" =>
                  ( ActivePositions(app_config.scenarios[i]) # {}
                      <=> /\ app_config.scenario_env_key \in DOMAIN env
                          /\ env[app_config.scenario_env_key] # Absent
                          /\ env[app_config.scenario_env_key] = app_config.scenarios[i].value )
        /\ IsBaseAndCustom(app_config.scenarios) =>
              /\ env[app_config.scenario_env_key] = "base" => ActiveValues = <<"base">>
              /\ env[app_config.scenario_env_key] = "custom" => ActiveValues = <<"base", "custom">>

\* C2 witness: base(default) and custom(user) configured, custom selected and
\* returned after base.
C2_Witness ==
    /\ Activated
    /\ IsBaseAndCustom(app_config.scenarios)
    /\ app_config.scenarios[1].value = "custom"
    /\ env.TEST_ENV = "custom"
    /\ ActiveValues = <<"base", "custom">>

\* The match of one condition as the claim states it: a regex search of
\* cond.regex in env.get(cond.key, "").
CondHolds(cond) ==
    re_search(cond.regex, IF env[cond.key] = Absent THEN "" ELSE env[cond.key])

LogicHolds(trigger) ==
    \/ /\ trigger.logic = "and"
       /\ \A k \in DOMAIN trigger.conditions : CondHolds(trigger.conditions[k])
    \/ /\ trigger.logic = "or"
       /\ \E k \in DOMAIN trigger.conditions : CondHolds(trigger.conditions[k])

\* C3 as stated: a scenario of source env is active iff all conditions match
\* (logic and) or at least one matches (logic or).
C3_EnvTriggerAsStated ==
    Activated =>
        \A i \in DOMAIN app_config.scenarios :
            app_config.scenarios[i].trigger.source = "env" =>
                ( ActivePositions(app_config.scenarios[i]) # {}
                    <=> LogicHolds(app_config.scenarios[i].trigger) )

\* C3 amended: the equivalence holds for a scenario of source env with at least
\* one condition; one with no condition is never active, whatever its logic.
C3_EnvTrigger ==
    Activated =>
        \A i \in DOMAIN app_config.scenarios :
            app_config.scenarios[i].trigger.source = "env" =>
                IF app_config.scenarios[i].trigger.conditions = <<>>
                THEN ActivePositions(app_config.scenarios[i]) = {}
                ELSE ( ActivePositions(app_config.scenarios[i]) # {}
                         <=> LogicHolds(app_config.scenarios[i].trigger) )

\* C3 witness: an or-trigger active on one match out of two conditions, the
\* other condition reading a variable that is missing.
C3_Witness ==
    /\ Activated
    /\ \E j \in DOMAIN active :
          /\ active[j].trigger.source = "env"
          /\ active[j].trigger.logic = "or"
          /\ Len(active[j].trigger.conditions) = 2
          /\ \E k \in DOMAIN active[j].trigger.conditions :
                /\ ~CondHolds(active[j].trigger.conditions[k])
                /\ env[active[j].trigger.conditions[k].key] = Absent

\* C4: the active list is sorted by priority, non-increasing.
C4_SortedDescending ==
    Activated =>
        \A j \in 1..(Len(active) - 1) : active[j].priority >= active[j + 1].priority

\* C4 witness: two active scenarios returned in the reverse of their config order.
C4_Witness ==
    /\ Activated
    /\ Len(active) = 2
    /\ active[1].priority > active[2].priority
    /\ active[1].value = app_config.scenarios[2].value
    /\ active[1].trigger.source = app_config.scenarios[2].trigger.source
    /\ active[1].trigger.source # app_config.scenarios[1].trigger.source

\* The keys the run requires: default_env_vars and the required_env_vars of the
\* active scenarios.
RequiredKeys ==
    Range(app_config.default_env_vars)
        \cup UNION {Range(active[j].required_env_vars) : j \in DOMAIN active}

KeyAbsent(k) == k \notin DOMAIN env \/ env[k] = Absent

\* C6 as stated: validate_required_env_vars raises iff some required key is
\* absent from the environment.
C6_RequiredAsStated ==
    EnvChecked => (pc = "raised" <=> \E k \in RequiredKeys : KeyAbsent(k))

\* C6 amended: it raises ConfigGeneratorError iff some non-empty required key is
\* absent; the message starts with the prefix and names exactly the missing
\* non-empty keys, each once, so nothing is demanded for an inactive scenario.
C6_Required ==
    EnvChecked =>
        /\ pc = "raised" <=> \E k \in RequiredKeys : k # "" /\ KeyAbsent(k)
        /\ pc = "raised" =>
              /\ error.type = "ConfigGeneratorError"
              /\ error.prefix = "Missing required environment variables"
              /\ Range(error.names) = {k \in RequiredKeys : k # "" /\ KeyAbsent(k)}
              /\ Len(error.names) = Cardinality(Range(error.names))
        /\ pc = "env_ok" => error = NoError

\* C6 witness: the run fails naming COND_A, required by default_env_vars, and
\* does not name COND_B, which is absent too but required only by a scenario
\* that is not active.
C6_Witness ==
    /\ pc = "raised"
    /\ error.names = <<"COND_A">>
    /\ env.COND_B = Absent
    /\ \E i \in DOMAIN app_config.scenarios :
          /\ ActivePositions(app_config.scenarios[i]) = {}
          /\ app_config.scenarios[i].required_env_vars = <<"COND_B">>

\* C7: validate_config_scenarios exits with status 1 iff some configured
\* scenario has source default or user with conditions, or source env with none.
Validated == pc \in {"validated", "exit1"}

C7_TriggerValidation ==
    Validated =>
        ( pc = "exit1" <=>
            \E i \in DOMAIN app_config.scenarios :
                LET t == app_config.scenarios[i].trigger
                IN \/ t.source \in {"default", "user"} /\ Len(t.conditions) > 0
                   \/ t.source = "env" /\ Len(t.conditions) = 0 )
        /\ (pc = "exit1" <=> error = SystemExit1)

\* C7 witness: the run exits on a scenario that the environment does not activate.
C7_Witness ==
    /\ pc = "exit1"
    /\ Len(app_config.scenarios) = 1
    /\ app_config.scenarios[1].trigger.source = "user"
    /\ app_config.scenarios[1].trigger.conditions # <<>>
    /\ env.TEST_ENV # app_config.scenarios[1].value

(***************************************************************************)
(* Properties of the node merger.                                          *)
(***************************************************************************)
KeysOf(nodes) == {nodes[i].key : i \in DOMAIN nodes}
KeySeq(nodes) == [i \in DOMAIN nodes |-> nodes[i].key]
Merged == history # <<>>

\* The nodes of a list that carry the key k, as a set of positions.
PositionsOf(nodes, k) == {i \in DOMAIN nodes : nodes[i].key = k}

\* The last layer applied so far whose file gives key k a default_value that
\* is not None; 0 when there is none.
LastSupplier(k) ==
    LET S == {i \in DOMAIN history :
                \E n \in DOMAIN history[i] :
                    history[i][n].key = k /\ history[i][n].default_value # None}
    IN IF S = {} THEN 0 ELSE CHOOSE i \in S : \A j \in S : j <= i

\* C5: after the layers are merged in application order from the empty list, a
\* key that the files define has exactly one node in the result, and its
\* default_value is the one of the last-applied file that gives a non-None one.
C5_LastLayerWins ==
    \A k \in UNION {KeysOf(history[i]) : i \in DOMAIN history} :
        /\ Cardinality(PositionsOf(merged_nodes, k)) = 1
        /\ \A m \in PositionsOf(merged_nodes, k) :
              IF LastSupplier(k) = 0
              THEN merged_nodes[m].default_value = None
              ELSE merged_nodes[m].default_value = "from_" \o Layers[LastSupplier(k)]

\* C5 witness: base, p5 and p1 all define shared_key with a default_value; the
\* single merged node holds the one of p1.
C5_Witness ==
    /\ Len(history) = 3
    /\ \A i \in DOMAIN history :
          /\ Len(history[i]) = 1
          /\ history[i][1].key = "shared_key"
          /\ history[i][1].default_value = "from_" \o Layers[i]
          /\ history[i][1].override_strategy = "merge"
    /\ Len(merged_nodes) = 1
    /\ merged_nodes[1].default_value = "from_p1"

\* C8: the result of merge_nodes(base, override) starts with the base nodes in
\* their order, a base node no override matches is unchanged, an override node
\* whose key equals a base key is merged into that node and not added, and the
\* override nodes of other keys follow the base nodes in override order; keys
\* are compared exactly.
C8_OrderPreserved ==
    Merged =>
        /\ Len(merged_nodes) >= Len(source_nodes)
        /\ \A i \in DOMAIN source_nodes :
              /\ merged_nodes[i].key = source_nodes[i].key
              /\ source_nodes[i].key \notin KeysOf(override_nodes) =>
                    merged_nodes[i] = source_nodes[i]
              /\ \A j \in DOMAIN override_nodes :
                    override_nodes[j].key = source_nodes[i].key =>
                        /\ merged_nodes[i].required = override_nodes[j].required
                        /\ merged_nodes[i].is_override = override_nodes[j].is_override
                        /\ PositionsOf(merged_nodes, override_nodes[j].key) = {i}
        /\ SubSeq(merged_nodes, Len(source_nodes) + 1, Len(merged_nodes))
              = SelectSeq(override_nodes, LAMBDA o : o.key \notin KeysOf(source_nodes))

\* C8 witness: base [a, b] and override [A, a]: a is merged in place, A differs
\* from a in case only and is appended.
C8_Witness ==
    /\ Merged
    /\ KeySeq(source_nodes) = <<"a", "b">>
    /\ KeySeq(override_nodes) = <<"A", "a">>
    /\ KeySeq(merged_nodes) = <<"a", "b", "A">>
    /\ merged_nodes[1] # source_nodes[1]

\* C9: when an override node meets a base node of its key, strategy replace
\* makes the node's children exactly the override's children; strategy merge
\* makes them merge_nodes(base children, override children), which keeps every
\* base child at its position.
C9_ReplaceOrMergeChildren ==
    Merged =>
        \A i \in DOMAIN source_nodes : \A j \in DOMAIN override_nodes :
            override_nodes[j].key = source_nodes[i].key =>
                /\ override_nodes[j].override_strategy = "replace" =>
                      merged_nodes[i].children = override_nodes[j].children
                /\ override_nodes[j].override_strategy = "merge" =>
                      /\ merged_nodes[i].children
                            = merge_nodes(source_nodes[i].children, override_nodes[j].children)
                      /\ Len(merged_nodes[i].children) >= Len(source_nodes[i].children)
                      /\ \A c \in DOMAIN source_nodes[i].children :
                            merged_nodes[i].children[c].key = source_nodes[i].children[c].key
                      /\ KeysOf(merged_nodes[i].children)
                            = KeysOf(source_nodes[i].children) \cup KeysOf(override_nodes[j].children)

\* C9 witness: a replace override without children empties a base node that
\* had a child.
C9_Witness ==
    /\ Merged
    /\ Len(source_nodes) = 1 /\ Len(override_nodes) = 1
    /\ source_nodes[1].key = override_nodes[1].key
    /\ source_nodes[1].children # <<>>
    /\ override_nodes[1].override_strategy = "replace"
    /\ override_nodes[1].children = <<>>
    /\ merged_nodes[1].children = <<>>

\* C9 second witness state: a merge override adds a child next to the base child.
C9_WitnessMerge ==
    /\ Merged
    /\ Len(source_nodes) = 1 /\ Len(override_nodes) = 1
    /\ source_nodes[1].key = override_nodes[1].key
    /\ override_nodes[1].override_strategy = "merge"
    /\ Len(source_nodes[1].children) = 1 /\ Len(override_nodes[1].children) = 1
    /\ Len(merged_nodes[1].children) = 2

RECURSIVE NoReplace(_)
NoReplace(nodes) ==
    \A i \in DOMAIN nodes :
        nodes[i].override_strategy # "replace" /\ NoReplace(nodes[i].children)

\* C10: for files A, B, C without a replace strategy, merging them in order,
\* merge_nodes(merge_nodes(A, B), C), gives the same tree as
\* merge_nodes(A, merge_nodes(B, C)).
C10_Associative ==
    (Len(history) = 3 /\ \A i \in DOMAIN history : NoReplace(history[i])) =>
        merged_nodes = merge_nodes(merge_nodes(<<>>, history[1]),
                                   merge_nodes(history[2], history[3]))

\* C10 witness: three files without replace that all touch one node, the
\* result holding children from two of them and a value from the middle one.
C10_Witness ==
    /\ Len(history) = 3
    /\ \A i \in DOMAIN history : NoReplace(history[i]) /\ history[i] # <<>>
    /\ Len(merged_nodes) = 1
    /\ Len(merged_nodes[1].children) = 2
    /\ merged_nodes[1].default_value = "from_p5"
    /\ history[1][1].children # <<>>
    /\ history[3][1].children # <<>>

(***************************************************************************)
(* Properties of process_scenarios, checked under SpecRun.                 *)
(***************************************************************************)
Finished == pc \in {"returned", "exit1", "raised"}
Collected == pc = "generating"

\* The file f of scenario v is in file_map under dest with type ftype.
CollectedAs(v, f, dest, ftype) ==
    \E j \in DOMAIN file_map :
        /\ file_map[j].dest = dest
        /\ \E k \in DOMAIN file_map[j].sources :
              LET src == file_map[j].sources[k]
              IN  src.scenario = v /\ src.file = f /\ src.type = ftype

InFileMap(v, f) ==
    \E j \in DOMAIN file_map : \E k \in DOMAIN file_map[j].sources :
        file_map[j].sources[k].scenario = v /\ file_map[j].sources[k].file = f

\* C11 as stated: collect_scenario_files gives X.yml.json the destination X.yml
\* and X.ini.json the destination X.ini (the path without ".json"), both typed
\* json; any other file keeps its relative path, typed raw; a file whose
\* basename starts with "." is not collected.  The code cuts nine characters
\* off an .ini.json path, so d/a.ini.json gets the destination d/a.
C11_SuffixStripped ==
    Collected =>
        \A i \in DOMAIN active :
            LET v == active[i].value
            IN  templates[v].exists =>
                    \A k \in DOMAIN templates[v].files :
                        LET f == templates[v].files[k]
                        IN  IF startswith(f.name, <<".">>)
                            THEN ~InFileMap(v, f)
                            ELSE IF endswith(f.name, SufYml \o SufJson)
                                      \/ endswith(f.name, SufIni \o SufJson)
                                 THEN CollectedAs(v, f, DropLast(RelPath(f), Len(SufJson)), "json")
                                 ELSE CollectedAs(v, f, RelPath(f), "raw")

\* The types of the sources of a destination, in order.
Types(sources) == [i \in DOMAIN sources |-> sources[i].type]
RawBeforeJson(sources) ==
    \E a, b \in DOMAIN sources : a < b /\ sources[a].type = "raw" /\ sources[b].type = "json"
EndsWithJson(sources) == sources[Len(sources)].type = "json"

Logged(i, level, what) == \E n \in DOMAIN log[i] : log[i][n].level = level /\ log[i][n].what = what
Rejected(i) == Logged(i, "ERROR", "conflict") /\ ~Logged(i, "WRITE", "written")

\* C12 as stated: every destination whose source list has a raw source
\* somewhere before a json source is rejected with an error and not written.
C12_RawBeforeJsonRejected ==
    \A i \in DOMAIN log : RawBeforeJson(file_map[i].sources) => Rejected(i)

\* C12, amended: generate_output_files rejects with an error, and writes no
\* output for, every destination whose source list holds a raw source and
\* ends with a json source; a destination whose list ends with a raw source
\* is not rejected.
C12_ConflictRejected ==
    \A i \in DOMAIN log :
        /\ RawBeforeJson(file_map[i].sources) /\ EndsWithJson(file_map[i].sources) => Rejected(i)
        /\ ~EndsWithJson(file_map[i].sources) => ~Logged(i, "ERROR", "conflict")

\* A raw file of base under a schema of custom has been rejected.
C12_Witness ==
    \E i \in DOMAIN log :
        /\ Types(file_map[i].sources) = <<"raw", "json">>
        /\ file_map[i].sources[1].scenario = "base"
        /\ file_map[i].sources[2].scenario = "custom"
        /\ Rejected(i)

ConflictLogged == \E i \in DOMAIN log : Logged(i, "ERROR", "conflict")
WarningLogged == \E i \in DOMAIN log : \E n \in DOMAIN log[i] : log[i][n].level = "WARNING"

\* C13 as stated: a run that detects a raw/schema conflict ends with exit
\* code 1, as does a run whose orchestrator config cannot be read; a run with
\* warnings only ends with exit code 0.  The code prints the conflict and goes
\* on, and returns when the config cannot be loaded: both runs end with 0.
C13_FatalExitCodes ==
    Finished =>
        /\ ConflictLogged => ExitStatus = 1
        /\ ~run.readable => ExitStatus = 1
        /\ (pc = "returned" /\ WarningLogged /\ ~ConflictLogged) => ExitStatus = 0

\* C14: a file that exists in the working directory keeps its content through
\* every step of every run: the raw copy, the schema rendering and save_file
\* write to no existing path.
C14_ExistingKept == [][\A f \in disk : f \in disk']_vars

\* The output a.yml existed, its destination came up in the schema path, was
\* skipped with a warning, and the run went on to its end.
C14_Witness ==
    /\ OldFile \in disk
    /\ pc = "returned"
    /\ \E i \in DOMAIN log :
          /\ EndsWithJson(file_map[i].sources)
          /\ Logged(i, "WARNING", "already exists")
          /\ i < Len(log)

\* The same in the raw copy path, in the second run, for a file the first
\* run wrote.
C14_WitnessRaw ==
    /\ run.runs = 2
    /\ \E i \in DOMAIN log :
          /\ ~EndsWithJson(file_map[i].sources)
          /\ Logged(i, "WARNING", "already exists")
          /\ \E f \in disk : f.kind = "raw" /\ f.path = resolve_path_vars(file_map[i].dest, env)

\* A schema file with a validation error: one of its nodes has no multi_type.
InvalidTemplate(f) ==
    endswith(f.name, SufJson) /\ \E n \in DOMAIN f.nodes : f.nodes[n].multi_type = <<>>
InvalidTemplateIn(v) ==
    templates[v].exists /\ \E k \in DOMAIN templates[v].files : InvalidTemplate(templates[v].files[k])

\* C15: with --check, a validation error in a template of any scenario the
\* config lists, active or not, ends the run with a non-zero exit status, and
\* in every case no file is collected and nothing is written.
C15_CheckOnly ==
    run.check_only =>
        /\ file_map = <<>> /\ cursor = 0 /\ log = <<>>
        /\ disk \subseteq {OldFile}
        /\ active = <<>>
        /\ (Finished /\ \E i \in DOMAIN app_config.scenarios : InvalidTemplateIn(app_config.scenarios[i].value))
              => ExitStatus = 1

\* --check ended with exit status 1 over a template of custom, which the
\* environment does not activate, while the templates of base are valid.
C15_Witness ==
    /\ run.check_only
    /\ pc = "exit1"
    /\ EnvGet(env, app_config.scenario_env_key) # "custom"
    /\ InvalidTemplateIn("custom")
    /\ ~InvalidTemplateIn("base")

(***************************************************************************)
(* Properties of validate_schema, checked under SpecValidate.              *)
(***************************************************************************)
\* The JSON objects of a schema at every depth, each with its node_key path.
RECURSIVE JsonNodesAt(_, _)
JsonNodesAt(d, node_key) ==
    {[node |-> d, node_key |-> node_key]}
        \cup UNION { JsonNodesAt(d.children[i], Append(node_key, DictGet(d.children[i], "key", ""))) :
                       i \in DOMAIN d.children }

JsonNodes ==
    UNION { JsonNodesAt(schema.data[i], <<StrOr(DictGet(schema.data[i], "key", ""), "UNKNOWN")>>) :
              i \in DOMAIN schema.data }

ReportedAt(node_key, msgs) ==
    \E n \in DOMAIN result.errors :
        result.errors[n].node_key = node_key /\ result.errors[n].msg \in msgs

\* C16 as stated: validate_schema reports "legacy 'type' field found" for every
\* node that carries a 'type' key, and a legacy error for every node that
\* carries 'item_type', whatever its multi_type.  The code has no such check:
\* from_dict does not read the two keys and validate_node never sees them.
C16_LegacyReported ==
    result.returned =>
        \A n \in JsonNodes :
            /\ "type" \in n.node.keys => ReportedAt(n.node_key, {"legacy 'type' field found"})
            /\ "item_type" \in n.node.keys => ReportedAt(n.node_key, {"legacy 'item_type' field found"})

\* The messages of validate_node about the item_multi_type of a list node.
ItemTypeMessages ==
    { "'multi_type' contains 'list' but 'item_multi_type' is empty",
      "node under INI groups/aggregations must have 'item_multi_type' containing 'object'" }

\* C17 as stated: validate_schema reports an error for every node, at any
\* depth, of a YAML or an INI schema, whose multi_type contains 'list', whose
\* children are not empty and whose item_multi_type does not contain
\* 'object'.  The code reports a list node only when its item_multi_type is
\* empty (or, in an INI schema, under groups/aggregations).
C17_ListChildrenNeedObject ==
    result.returned =>
        \A n \in JsonNodes :
            ( /\ "list" \in Range(n.node.multi_type)
              /\ n.node.children # <<>>
              /\ "object" \notin Range(n.node.item_multi_type) )
                => ReportedAt(n.node_key, ItemTypeMessages)

(***************************************************************************)
(* Properties of generate_yaml_from_schema, checked under SpecRender.      *)
(***************************************************************************)
\* The call of generate_yaml_from_schema has been made.
Rendered == result # NoResult

\* The process that made the call: nothing between __main__ and the call in
\* _process_schema_file catches what the renderer raises, so an error ends the
\* process with status 1.
RenderExitStatus ==
    CASE result.returned -> 0
      [] result.error # NoError -> 1
      [] OTHER -> -1

\* A node whose children the formatters hand to generate_yaml_from_schema: a
\* list node unless its value is a list with items, an object node whose own
\* default_value is None or "".
WalksChildren(node) ==
    /\ node.children # <<>>
    /\ ~("object" \in Range(node.multi_type) /\ "list" \in Range(node.multi_type))
    /\ IF "list" \in Range(node.multi_type)
       THEN ~(PyValues[resolve_node_value(node)].type = "list"
              /\ PyValues[resolve_node_value(node)].items # <<>>)
       ELSE "object" \in Range(node.multi_type) /\ node.default_value \in {None, ""}

\* The nodes the renderer comes to, each with its path: the enabled nodes of
\* the list it is given and of every list of children it walks.
RECURSIVE WalkedIn(_, _)
WalkedIn(nodes, of) ==
    UNION { IF ~is_node_enabled(nodes[i]) THEN {}
            ELSE {[node |-> nodes[i], of |-> Append(of, i)]}
                 \cup (IF WalksChildren(nodes[i])
                       THEN WalkedIn(nodes[i].children, Append(of, i)) ELSE {}) :
            i \in DOMAIN nodes }

Walked == WalkedIn(schema.nodes, <<>>)

Conflicting(node) == "object" \in Range(node.multi_type) /\ "list" \in Range(node.multi_type)

ConflictReported(key) ==
    \E n \in DOMAIN ValidateNodes(schema.nodes, FALSE) :
        /\ ValidateNodes(schema.nodes, FALSE)[n].key = key
        /\ ValidateNodes(schema.nodes, FALSE)[n].msg
              = "'multi_type' cannot contain both 'object' and 'list'"

Lines == Flatten(result.lines)

PathPrefix(p, q) == Len(p) <= Len(q) /\ SubSeq(q, 1, Len(p)) = p

\* Every node of the schema, at every depth, with its path.
RECURSIVE NodesIn(_, _)
NodesIn(nodes, of) ==
    UNION { {[node |-> nodes[i], of |-> Append(of, i)]}
                \cup NodesIn(nodes[i].children, Append(of, i)) :
            i \in DOMAIN nodes }

AllNodes == NodesIn(schema.nodes, <<>>)

\* required=false, no default_value and no regex
Omitted(node) == ~node.required /\ node.default_value = None /\ node.regex = None

UnderOmitted(n) ==
    \E m \in AllNodes : Omitted(m.node) /\ m.of # n.of /\ PathPrefix(m.of, n.of)

HasKeyLine(of) == \E i \in DOMAIN Lines : Lines[i].of = of /\ Lines[i].part = "key"

BlankCount == Cardinality({i \in DOMAIN Lines : Lines[i].text = <<>>})

EnabledTop == {i \in DOMAIN schema.nodes : ~Omitted(schema.nodes[i])}

\* No line comes from an omitted node or from below it, and the blank lines
\* are those between the top-level nodes that are not omitted.
OmittedEmitNothing ==
    /\ \A n \in AllNodes :
          Omitted(n.node) => \A i \in DOMAIN Lines : ~PathPrefix(n.of, Lines[i].of)
    /\ BlankCount = IF EnabledTop = {} THEN 0
                    ELSE top_level_spacing(schema.config) * (Cardinality(EnabledTop) - 1)
    /\ Lines # <<>> => Lines[1].text # <<>>

\* C19 as stated: an omitted node (required=false, no default_value, no
\* regex) emits no line at any depth and no blank lines at depth 0, and every
\* other node that is not below an omitted one has its key line in the output.
C19_OthersAllRendered ==
    (Rendered /\ result.returned) =>
        /\ OmittedEmitNothing
        /\ \A n \in AllNodes : (~Omitted(n.node) /\ ~UnderOmitted(n)) => HasKeyLine(n.of)

\* C19, amended: an omitted node emits no line at any depth and no blank
\* lines at depth 0; every other node of a list the renderer walks (the
\* top-level list, and the children of a rendered list or object node that is
\* not written from its own default_value) has its key line in the output, and
\* no line comes from any other node.
C19_OmittedSkipped ==
    (Rendered /\ result.returned) =>
        /\ OmittedEmitNothing
        /\ \A w \in Walked : HasKeyLine(w.of)
        /\ \A i \in DOMAIN Lines :
              Lines[i].text # <<>> => \E w \in Walked : w.of = Lines[i].of

\* An omitted node comes first at depth 0 and another is the only child of the
\* node after it: the output is the key line of that node and nothing else.
C19_Witness ==
    /\ Rendered /\ result.returned
    /\ Len(schema.nodes) = 2
    /\ Omitted(schema.nodes[1])
    /\ schema.nodes[2].children # <<>>
    /\ Omitted(schema.nodes[2].children[1])
    /\ schema.nodes[2].children[1].children # <<>>
    /\ ~Omitted(schema.nodes[2].children[1].children[1])
    /\ Len(Lines) = 1
    /\ HasKeyLine(<<2>>)

\* A node written from its own default_value leaves its child out although the
\* child is not omitted.
C19_WitnessDefault ==
    /\ Rendered /\ result.returned
    /\ \E n \in AllNodes :
          /\ Len(n.of) = 2 /\ ~Omitted(n.node) /\ ~UnderOmitted(n)
          /\ "object" \in Range(schema.nodes[n.of[1]].multi_type)
          /\ ~HasKeyLine(n.of)

\* The block of the top-level node i in the output: its lines and those of the
\* nodes below it.
Block(i) == SelectSeq(Lines, LAMBDA l : PathPrefix(<<i>>, l.of))

\* The block of the top-level node i as it is before _apply_yaml_commenting
\* looks at it: what _process_yaml_node returns for the node when required.
BlockBefore(i) ==
    Flatten(process_yaml_node([schema.nodes[i] EXCEPT !.required = TRUE], 0, schema.config, <<i>>).lines)

HasConditions(node) == TruthyCondition(node.condition) /\ node.condition.conditions # <<>>

\* C20 as stated: in the block of a rendered node with required=false and no
\* non-empty condition.conditions every line that is neither blank nor a
\* description or banner line, the lines of nested children included, carries
\* one more "# " at its indentation, and the description and banner lines are
\* as they were; the block of a node that is required or has conditions is
\* unchanged.  The code leaves only the node's own description lines alone:
\* the description and banner lines of nested children are prefixed as well.
C20_CommentedOnce ==
    (Rendered /\ result.returned) =>
        \A i \in EnabledTop :
            /\ Len(Block(i)) = Len(BlockBefore(i))
            /\ \A k \in DOMAIN Block(i) :
                  IF schema.nodes[i].required \/ HasConditions(schema.nodes[i])
                     \/ BlockBefore(i)[k].part = "desc" \/ BlockBefore(i)[k].text = <<>>
                  THEN Block(i)[k] = BlockBefore(i)[k]
                  ELSE Block(i)[k] = [BlockBefore(i)[k] EXCEPT !.text = <<"# ">> \o @]

(***************************************************************************)
(* Further properties of merge_nodes, checked under SpecMerge.             *)
(***************************************************************************)
\* The override node j meets the base node i of its key.
Meets(j, i) ==
    /\ i \in DOMAIN source_nodes /\ j \in DOMAIN override_nodes
    /\ override_nodes[j].key # ""
    /\ override_nodes[j].key = source_nodes[i].key

\* C24 as stated: after an override node is merged into the base node of its
\* key, the override_hint of that node is true whatever the override declares.
\* The code copies the override's flag.
C24_HintSetOnMerge ==
    Merged =>
        \A i \in DOMAIN source_nodes : \A j \in DOMAIN override_nodes :
            Meets(j, i) => merged_nodes[i].override_hint = TRUE

\* C24, amended: after an override node is merged into the base node of its
\* key, the override_hint of that node is the override_hint the override node
\* declares (false when it declares none), whatever the base node had.
C24_HintCopied ==
    Merged =>
        \A i \in DOMAIN source_nodes : \A j \in DOMAIN override_nodes :
            Meets(j, i) => merged_nodes[i].override_hint = override_nodes[j].override_hint

\* A base node with the hint set meets an override that declares none: the
\* merged node has lost the hint.
C24_Witness ==
    /\ Merged
    /\ \E i \in DOMAIN source_nodes : \E j \in DOMAIN override_nodes :
          /\ Meets(j, i)
          /\ source_nodes[i].override_hint
          /\ ~override_nodes[j].override_hint
          /\ ~merged_nodes[i].override_hint

(***************************************************************************)
(* Properties of _merge_single_node, checked under SpecNode.               *)
(***************************************************************************)
\* C25: when an override meets the base node of its key, default_value is the
\* base's when the override's is None (stated null or not stated) and the
\* override's otherwise, "", 0, false, [] and {} included; multi_type,
\* item_multi_type, description, regex and condition are the override's when
\* that is not empty and the base's otherwise; required, override_hint,
\* is_override and regex_enable are the override's, with the defaults of
\* from_dict for what the override does not state: an override that does not
\* state required makes the node required.
C25_AttributeRules ==
    Merged =>
        LET b == source_nodes[1]
            o == override_nodes[1]
            m == merged_nodes[1]
        IN  /\ Len(merged_nodes) = 1
            /\ m.default_value = IF o.default_value = None THEN b.default_value ELSE o.default_value
            /\ "default_value" \notin schema.keys => m.default_value = b.default_value
            /\ ("default_value" \in schema.keys /\ schema.default_value # None)
                  => m.default_value = schema.default_value
            /\ m.multi_type = IF o.multi_type = <<>> THEN b.multi_type ELSE o.multi_type
            /\ m.item_multi_type = IF o.item_multi_type = <<>> THEN b.item_multi_type ELSE o.item_multi_type
            /\ m.description = IF o.description = "" THEN b.description ELSE o.description
            /\ m.regex = IF o.regex \in {None, ""} THEN b.regex ELSE o.regex
            /\ m.condition = IF o.condition \in {ConditionNone, ConditionEmpty}
                             THEN b.condition ELSE o.condition
            /\ m.required = o.required
            /\ m.override_hint = o.override_hint
            /\ m.is_override = o.is_override
            /\ m.regex_enable = o.regex_enable
            /\ "required" \notin schema.keys => m.required = TRUE
            /\ "override_hint" \notin schema.keys => m.override_hint = FALSE
            /\ "is_override" \notin schema.keys => m.is_override = FALSE
            /\ "regex_enable" \notin schema.keys => m.regex_enable = FALSE

\* An override that states only default_value, as "", meets a base node that is
\* not required and has a default: the default becomes "" and the node required.
C25_Witness ==
    /\ Merged
    /\ schema.keys = {"key", "default_value"}
    /\ schema.default_value = ""
    /\ source_nodes[1].default_value = "from_base"
    /\ ~source_nodes[1].required
    /\ merged_nodes[1].default_value = ""
    /\ merged_nodes[1].required
    /\ merged_nodes[1].description = "desc_base"

(***************************************************************************)
(* Sibling keys under merge_nodes, checked under SpecKeys.                 *)
(***************************************************************************)
RECURSIVE DistinctKeys(_)
DistinctKeys(nodes) ==
    /\ \A i, j \in DOMAIN nodes : nodes[i].key = nodes[j].key => i = j
    /\ \A i \in DOMAIN nodes : DistinctKeys(nodes[i].children)

RECURSIVE NoEmptyKey(_)
NoEmptyKey(nodes) ==
    \A i \in DOMAIN nodes : nodes[i].key # "" /\ NoEmptyKey(nodes[i].children)

EmptyKeyed(nodes) == {i \in DOMAIN nodes : nodes[i].key = ""}

\* C29 as stated: from a base tree whose sibling lists have distinct non-empty
\* keys, after any sequence of merges with override lists of distinct keys,
\* every sibling list of the result has distinct keys and no node with an
\* empty key is in the result, at any depth.  The code drops the nodes
\* without a key from the list merge_nodes is given, yet takes the children of
\* an override as they are when it appends the override, replaces the
\* children, or the base node has none.
C29_UniqueNoEmptyKeys ==
    Merged => DistinctKeys(merged_nodes) /\ NoEmptyKey(merged_nodes)

\* C29, amended: every sibling list of the result, at every depth, has
\* distinct keys; no node without a key is in the top-level list; and when an
\* override with strategy merge meets a base node that has children, no node
\* without a key is added to those children.
C29_UniqueKeys ==
    Merged =>
        /\ DistinctKeys(merged_nodes)
        /\ EmptyKeyed(merged_nodes) = {}
        /\ \A i \in DOMAIN source_nodes : \A j \in DOMAIN override_nodes :
              ( /\ Meets(j, i)
                /\ override_nodes[j].override_strategy = "merge"
                /\ source_nodes[i].children # <<>> )
                  => EmptyKeyed(merged_nodes[i].children) = EmptyKeyed(source_nodes[i].children)

\* Two override lists, each with a node without a key at the top and one
\* among the children of "a": the top-level ones are dropped, the child of the
\* replace override is in the result.
C29_Witness ==
    /\ Len(history) = 2
    /\ \A h \in DOMAIN history : EmptyKeyed(history[h]) # {}
    /\ \E j \in DOMAIN override_nodes :
          /\ override_nodes[j].key = "a"
          /\ override_nodes[j].override_strategy = "replace"
          /\ EmptyKeyed(override_nodes[j].children) # {}
    /\ DistinctKeys(merged_nodes)
    /\ EmptyKeyed(merged_nodes) = {}
    /\ ~NoEmptyKey(merged_nodes)

(***************************************************************************)
(* The place of the default scenario, checked under SpecAct.               *)
(***************************************************************************)
\* C28 as stated: in the list determine_active_scenarios returns, a scenario
\* of source default precedes every active scenario of another source,
\* whatever the priorities of those are.  The code sorts by priority with the
\* default at 9999, so a scenario of a higher priority comes first.
C28_DefaultFirst ==
    Activated =>
        \A j, k \in DOMAIN active :
            (active[j].trigger.source = "default" /\ active[k].trigger.source # "default")
                => j < k

\* C28, amended: a scenario of source default precedes every active scenario
\* of another source whose priority is below 9999, and follows every one whose
\* priority is above 9999.
C28_DefaultBySentinel ==
    Activated =>
        \A j, k \in DOMAIN active :
            (active[j].trigger.source = "default" /\ active[k].trigger.source # "default")
                => /\ active[k].priority < SentinelPriority => j < k
                   /\ active[k].priority > SentinelPriority => k < j

\* An active scenario of priority 10000 comes before the default scenario,
\* which the config lists first.
C28_Witness ==
    /\ Activated
    /\ Len(active) = 2
    /\ active[1].trigger.source # "default" /\ active[1].priority > SentinelPriority
    /\ active[2].trigger.source = "default" /\ active[2].priority = SentinelPriority
    /\ app_config.scenarios[1].trigger.source = "default"

(***************************************************************************)
(* Further properties of process_scenarios, checked under SpecRun.         *)
(***************************************************************************)
\* The sources of a destination merged in list order, starting from [].
RECURSIVE MergedInOrder(_)
MergedInOrder(sources) ==
    IF sources = <<>> THEN <<>>
    ELSE merge_nodes(MergedInOrder(SubSeq(sources, 1, Len(sources) - 1)),
                     sources[Len(sources)].file.nodes)

NoRawSource(sources) == \A i \in DOMAIN sources : sources[i].type # "raw"

C26_WitnessSchema ==
    /\ pc = "returned"
    /\ \E i \in DOMAIN file_map :
          /\ Len(file_map[i].sources) = 2
          /\ NoRawSource(file_map[i].sources)
          /\ file_map[i].sources[1].file.nodes # file_map[i].sources[2].file.nodes
          /\ \E f \in disk :
                /\ f.path = file_map[i].dest /\ f.kind = "yaml"
                /\ f.nodes = merge_nodes(file_map[i].sources[1].file.nodes,
                                         file_map[i].sources[2].file.nodes)

\* The steps of a run that is not --check, as pairs of positions: the config
\* is loaded, the triggers validated, the scenarios activated and the required
\* variables validated, the templates validated, the files collected, the
\* outputs generated one by one; a failed validation ends the run.
RunOrder ==
    { <<"boot", "loaded">>, <<"boot", "returned">>,
      <<"loaded", "config_ok">>, <<"loaded", "exit1">>,
      <<"config_ok", "env_checked">>, <<"config_ok", "raised">>,
      <<"env_checked", "templates_ok">>, <<"env_checked", "exit1">>,
      <<"templates_ok", "generating">>,
      <<"generating", "generating">>, <<"generating", "returned">>,
      <<"returned", "boot">>, <<"exit1", "boot">>, <<"raised", "boot">> }

\* Every validation of the run has passed.
AllValid ==
    /\ validate_config_scenarios(app_config) # "exit1"
    /\ active = determine_active_scenarios(app_config, env)
    /\ validate_required_env_vars(app_config, active, env) = {NoError}
    /\ TemplateErrors(active, templates) = <<>>

\* C27: a run that is not --check takes its steps in the order trigger
\* validation, activation, validation of the required variables, validation
\* of the templates of the active scenarios, collection, generation; the files
\* are collected and outputs generated only when the three validations have
\* passed, and a run that a validation ends has written and collected nothing.
C27_StepOrder ==
    /\ [](~run.check_only =>
            /\ pc \in {"templates_ok", "generating"} => AllValid
            /\ (file_map # <<>> \/ log # <<>>) => (pc \in {"generating", "returned"} /\ AllValid)
            /\ pc \in {"exit1", "raised"} => (log = <<>> /\ file_map = <<>>))
    /\ [][ ~run.check_only =>
             /\ <<pc, pc'>> \in RunOrder
             /\ disk' # disk => (pc = "generating" /\ pc' = "generating") ]_vars

\* A run has written a file; run again with the same inputs it stops at no
\* validation either.
C27_Witness ==
    /\ ~run.check_only
    /\ pc = "returned"
    /\ AllValid
    /\ \E i \in DOMAIN log : \E n \in DOMAIN log[i] : log[i][n].level = "WRITE"

\* The validation of the required variables has ended a run whose templates
\* are not valid either: nothing is collected or written.
C27_WitnessRaised ==
    /\ ~run.check_only
    /\ pc = "raised"
    /\ TemplateErrors(active, templates) # <<>>
    /\ disk = {}

(***************************************************************************)
(* Properties of resolve_content_vars and resolve_path_vars, checked under *)
(* SpecSubst.                                                              *)
(***************************************************************************)
SubstLead == IF pc = "content" THEN <<"$">> ELSE <<>>

ItemOf(items, key) == CHOOSE i \in DOMAIN items : items[i].key = key

\* One pass over the text from left to right: a placeholder of a name of the
\* environment gives way to the value, which is not looked at again; any
\* other character is kept.
RECURSIVE SinglePass(_, _, _)
SinglePass(s, items, lead) ==
    IF s = <<>> THEN <<>>
    ELSE IF \E i \in DOMAIN items : startswith(s, lead \o <<"{">> \o items[i].key \o <<"}">>)
         THEN LET i == CHOOSE i \in DOMAIN items :
                          startswith(s, lead \o <<"{">> \o items[i].key \o <<"}">>)
                  n == Len(lead) + Len(items[i].key) + 2
              IN  items[i].value \o SinglePass(SubSeq(s, n + 1, Len(s)), items, lead)
         ELSE <<Head(s)>> \o SinglePass(Tail(s), items, lead)

Reversed(items) == [i \in DOMAIN items |-> items[Len(items) + 1 - i]]

\* C30 as stated: resolve_content_vars and resolve_path_vars return the text
\* with every placeholder of a name of env replaced in one pass, what a value
\* brings in not being expanded; the result is the same whatever the order of
\* env.items(); a placeholder of a name that is not in env stays as written.
\* The code replaces name after name in the text the earlier replacements
\* made, so a placeholder that a value brings in is expanded when its name
\* comes later in env.items().
C30_SinglePass ==
    result.returned =>
        /\ result.lines = SinglePass(schema.text, schema.items, SubstLead)
        /\ result.lines = resolve_vars(schema.text, Reversed(schema.items), SubstLead)

(***************************************************************************)
(* Properties of substitute_env_in_default_values, checked under           *)
(* SpecDefaults.                                                           *)
(***************************************************************************)
\* No value of the environment holds a brace, so no value holds a placeholder.
PlainValues(items) ==
    \A i \in DOMAIN items : \A j \in DOMAIN items[i].value : items[i].value[j] # "{"

\* The string after is the string before with ${NAME} replaced by env[NAME]
\* for each NAME of the environment; with plain values that is the one pass
\* over the string.
StringSubstituted(before, after, items) ==
    /\ after = SubstituteItems(before, items, <<"$">>)
    /\ PlainValues(items) => after = SinglePass(before, items, <<"$">>)

\* The value after has the kind, the keys and the number of elements of the
\* value before; its string leaves are substituted and its other leaves are
\* the same.
RECURSIVE ValueSubstituted(_, _, _)
ValueSubstituted(before, after, items) ==
    /\ after.kind = before.kind
    /\ after.keys = before.keys
    /\ Len(after.elems) = Len(before.elems)
    /\ IF before.kind = "str"
       THEN StringSubstituted(before.text, after.text, items)
       ELSE after.text = before.text
    /\ \A i \in DOMAIN before.elems : ValueSubstituted(before.elems[i], after.elems[i], items)

\* Every node after has the attributes of the node before but default_value,
\* as many children, and a substituted default_value; so have its children.
RECURSIVE NodesSubstituted(_, _, _)
NodesSubstituted(before, after, items) ==
    /\ Len(after) = Len(before)
    /\ \A i \in DOMAIN before :
          /\ after[i].key = before[i].key
          /\ after[i].regex = before[i].regex
          /\ after[i].description = before[i].description
          /\ after[i].required = before[i].required
          /\ after[i].multi_type = before[i].multi_type
          /\ after[i].item_multi_type = before[i].item_multi_type
          /\ ValueSubstituted(before[i].default_value, after[i].default_value, items)
          /\ NodesSubstituted(before[i].children, after[i].children, items)

\* C23: substitute_env_in_default_values changes only default_value: every
\* node keeps its key, regex, description, required flag, types and number of
\* children; inside default_value the kinds, the dict keys and the leaves that
\* are not strings are kept, and every string leaf, at the top or inside
\* dicts and lists, has ${NAME} replaced by env[NAME] for each NAME of env; a
\* ${NAME} in regex or in a key stays as written.
C23_OnlyDefaultValue ==
    pc = "substituted" => NodesSubstituted(schema.nodes, merged_nodes, schema.items)

\* A parent with a child: the child's regex and key hold ${A}, A is in env,
\* and the child's default is a dict whose list holds a string that was
\* substituted.
C23_Witness ==
    /\ pc = "substituted"
    /\ Len(merged_nodes) = 1
    /\ Len(merged_nodes[1].children) = 1
    /\ \E i \in DOMAIN schema.items : schema.items[i].key = <<"A">>
    /\ merged_nodes[1].children[1].regex = PlaceholderA
    /\ merged_nodes[1].children[1].default_value.kind = "dict"
    /\ Len(merged_nodes[1].children[1].default_value.elems) = 2
    /\ merged_nodes[1].children[1].default_value.elems[1].kind = "list"
    /\ merged_nodes[1].children[1].default_value.elems[1] #
           schema.nodes[1].children[1].default_value.elems[1]
    /\ merged_nodes[1].children[1].default_value.elems[2] = IntValue(<<"7">>)
    /\ merged_nodes[1].default_value # schema.nodes[1].default_value

(***************************************************************************)
(* Properties of generate_ini_from_schema, checked under SpecIni.          *)
(***************************************************************************)
IniKeys == <<"global_vars", "groups", "aggregations", "group_vars">>

\* The place of a root key among the passes.
PassOf(key) == CHOOSE r \in DOMAIN IniKeys : IniKeys[r] = key

\* The enabled root nodes of the four keys.
IniRoots ==
    {i \in DOMAIN schema.nodes :
        schema.nodes[i].key \in Range(IniKeys) /\ is_node_enabled(schema.nodes[i])}

\* The root has something to print under its comments: [all:vars], or a
\* section whose schema is enabled.
HasSections(node) ==
    \/ node.key = "global_vars"
    \/ LET val == DictOrEmpty(resolve_node_value(node))
       IN  \E k \in Range(get_ini_ordered_keys(node, val)) : ~SkipsSection(node, k)

\* The positions of the output whose line comes from root i.
RootPositions(i) == {n \in DOMAIN Lines : PathPrefix(<<i>>, Lines[n].of)}

IsCommented(line) == line.text # <<>> /\ line.text[1] = "# "

\* C21 as stated: every enabled root node of the four keys, one with
\* required=false and a default_value included, has its block in the output,
\* the block ends with a blank line, the block of a root that is not required
\* and has no conditions is commented line by line rather than left out, and
\* the blocks follow the order global_vars, groups, aggregations, group_vars
\* whatever the order of the roots in the schema.  The code leaves out a root
\* that is not required and has no conditions.
C21_EveryRootBlock ==
    result.returned =>
        /\ \A i \in IniRoots :
              HasSections(schema.nodes[i]) =>
                  /\ \E n \in RootPositions(i) : Lines[n].part = "key"
                  /\ \A n \in RootPositions(i) :
                        (\A m \in RootPositions(i) : m <= n) =>
                            n + 1 \in DOMAIN Lines /\ Lines[n + 1].text = <<>>
                  /\ (~schema.nodes[i].required /\ ~HasConditions(schema.nodes[i])) =>
                        \A n \in RootPositions(i) : Lines[n].part # "desc" => IsCommented(Lines[n])
        /\ \A n, m \in DOMAIN Lines :
              (n < m /\ Lines[n].of # <<>> /\ Lines[m].of # <<>>) =>
                  PassOf(schema.nodes[Lines[n].of[1]].key) <= PassOf(schema.nodes[Lines[m].of[1]].key)

\* A line without the "# " that the commenting rule puts before it.
Bare(line) == IF line.part # "desc" /\ IsCommented(line) THEN Tail(line.text) ELSE line.text

\* The positions of the header [<key>:children] in the output.
HeadersOf(key) == {n \in DOMAIN Lines : Bare(Lines[n]) = <<"[", key, ":children]">>}

\* The aggregations roots that the pass walks.
WalkedAggregations ==
    {i \in DOMAIN schema.nodes : WalksRoot(schema.nodes[i], "aggregations")}

\* The comment lines of a description: three for a banner, one otherwise.
DescLen(node) == Len(generate_ini_comments_from_desc(node.description, <<>>))

\* C22: for an aggregations root that the pass walks, every enabled child has
\* exactly one header [<child>:children]; the headers stand in schema order;
\* the description or banner of the child stands right before its header; a
\* child with a list of its own has exactly that list right after its header,
\* then the blank line, so the iteration goes past the first child and no
\* member stands under the header of another child.
C22_OneBlockPerChild ==
    result.returned =>
        \A i \in WalkedAggregations :
            LET ch == schema.nodes[i].children
                enabled == {j \in DOMAIN ch : is_node_enabled(ch[j])}
            IN  /\ \A j \in enabled :
                      /\ Cardinality(HeadersOf(ch[j].key)) = 1
                      /\ LET h == CHOOSE n \in HeadersOf(ch[j].key) : TRUE
                             own == IniValues[resolve_node_value(ch[j])]
                         IN  /\ h > DescLen(ch[j])
                             /\ \A d \in 1..DescLen(ch[j]) :
                                   /\ Lines[h - d].part = "desc"
                                   /\ Lines[h - d].of = Lines[h].of
                             /\ ch[j].description = "d" => Lines[h - 1].text = <<"# ", "d">>
                             /\ ch[j].description = "#banner" => Lines[h - 2].text = <<"# ", "banner">>
                             /\ own.type = "list" /\ own.items # <<>> =>
                                   /\ h + Len(own.items) + 1 \in DOMAIN Lines
                                   /\ \A e \in DOMAIN own.items : Bare(Lines[h + e]) = <<own.items[e]>>
                                   /\ Lines[h + Len(own.items) + 1].text = <<>>
                             /\ (~ch[j].required) <=> IsCommented(Lines[h])
                /\ \A j, l \in enabled :
                      j < l => \A n \in HeadersOf(ch[j].key), m \in HeadersOf(ch[l].key) : n < m

\* Two enabled children with lists of their own, z before k, k not required;
\* both headers are in the output.
C22_Witness ==
    /\ result.returned
    /\ \E i \in WalkedAggregations :
          /\ Len(schema.nodes[i].children) = 2
          /\ schema.nodes[i].children[1].key = "z"
          /\ schema.nodes[i].children[1].default_value = "[w]"
          /\ schema.nodes[i].children[2].default_value = "[m, w]"
          /\ ~schema.nodes[i].children[2].required
          /\ schema.nodes[i].default_value # None
    /\ HeadersOf("z") # {}
    /\ HeadersOf("k") # {}

====
